---- MODULE Spec2Model ----
(***************************************************************************)
(* Refinery backend: the analysis request handlers, the persisted analysis *)
(* rows and the pure aggregation / scoring functions.                      *)
(*                                                                         *)
(* The repository holds two applications that are never served together:   *)
(* the async API (app/api/routes, AnalysisResult with a status) and the    *)
(* mock-data engine (app/routes + app/services/analysis_engine.py,         *)
(* AnalysisResult per module plus EditQueueItem).  `app` says which one a   *)
(* behaviour is about.                                                     *)
(***************************************************************************)
EXTENDS Integers, Sequences, FiniteSets, TLC

\* ------------------------------------------------------------------ bounds
MaxRuns == 2         \* POST /analysis/run requests per behaviour
MaxAnalyze == 2      \* POST /manuscripts/{id}/analyze requests per behaviour
MaxAnalyses == 2     \* analyses in the list given to aggregate_edit_queue
MaxLines == 5        \* lines of the text given to detect_chapters
MaxPieces == 4       \* pieces of the text given to _compute_local_prose_stats
MaxOrgs == 2         \* organizations created per behaviour
MaxMembers == 3      \* OrgMembership rows per behaviour
MaxRedeems == 3      \* redeem_invite_code requests per behaviour
MaxAnnotations == 2  \* Annotation rows per behaviour

\* --------------------------------------------------------------- variables
VARIABLES
    app,               \* the application or function the behaviour is about
    tier,              \* User.tier of the calling user
    manuscripts,       \* manuscript id -> [exists, owner, raw_text]
    analysis_results,  \* row id -> AnalysisResult row (api)
    next_id,           \* autoincrement of analysis_results.id
    requests,          \* run_analysis requests, in order of arrival
    manuscript,        \* the caller's manuscript row (engine)
    results,           \* row id -> AnalysisResult row (engine, one per module run)
    edit_queue,        \* row id -> EditQueueItem row (engine)
    next_result_id,    \* autoincrement of the engine's analysis_results.id
    next_item_id,      \* autoincrement of edit_queue_items.id
    analyze,           \* analyze_manuscript requests, in order of arrival
    patched,           \* update_edit_queue_item: the last request and its response
    analyses,          \* aggregate_edit_queue: the argument
    aggregated,        \* aggregate_edit_queue: the returned dict, <<>> before the call
    module_results,    \* compute_acquisition_score: the component scores it is given
    acquisition,       \* compute_acquisition_score: the returned dict, <<>> before
    text,              \* detect_chapters: the argument, as line and newline tokens
    detected,          \* detect_chapters: the returned list, <<>> before the call
    raw_text,          \* _compute_local_prose_stats: the text, as characters
    prose_stats,       \* _compute_local_prose_stats: the returned dict, <<>> before
    user_tiers,        \* user id -> User.tier (enterprise routes)
    memberships,       \* row id -> OrgMembership row
    next_org_id,       \* autoincrement of organizations.id
    decisions,         \* row id -> ManuscriptDecision row
    tenant_reply,      \* the last enterprise request and its response
    invitations,       \* row id -> InvitationCode row
    assignments,       \* row id -> AdvisorAssignment row
    annotations,       \* row id -> Annotation row
    redeems,           \* redeem_invite_code requests, in order of arrival
    advisor_reply      \* the last list_advisor_annotations request and response

apiVars == <<tier, manuscripts, analysis_results, next_id, requests>>
engineVars ==
    <<manuscript, results, edit_queue, next_result_id, next_item_id, analyze, patched>>
docVars == <<text, detected, raw_text, prose_stats>>
orgVars == <<user_tiers, memberships, next_org_id, decisions, tenant_reply>>
advisorVars == <<invitations, assignments, annotations, redeems, advisor_reply>>
tenantVars == <<orgVars, advisorVars>>
fnVars == <<analyses, aggregated, module_results, acquisition, docVars, advisorVars, tenantVars>>
nonApiVars == <<engineVars, fnVars>>
nonEngineVars == <<apiVars, fnVars>>
nonAnalyzeVars == <<nonEngineVars, patched>>
vars == <<app, apiVars, engineVars, fnVars>>

\* ------------------------------------------------------------ enumerations
UserTier == {"free", "pro", "academic", "advisor", "enterprise"}

AnalysisType ==
    {"xray", "intelligence_engine", "voice_isolation", "pacing_architect",
     "character_arc", "prose_refinery", "revision_center", "argument_coherence",
     "citation_architecture", "academic_voice", "acquisition_score"}

PENDING == "pending"
RUNNING == "running"
COMPLETED == "completed"
FAILED == "failed"
AnalysisStatus == {PENDING, RUNNING, COMPLETED, FAILED}

\* analysis_type strings a request may carry: every known name and one unknown
RequestTypes == AnalysisType \cup {"bogus"}

\* manuscript ids a request may carry: 1 is the caller's, 2 is another user's
MsIds == {1, 2}
Caller == "caller"

\* ---------------------------------------------------------------- run_analysis
TIER_ACCESS(name) ==
    CASE name \in {"xray", "intelligence_engine", "prose_refinery"} -> UserTier
      [] name \in {"voice_isolation", "pacing_architect", "character_arc",
                   "revision_center"} -> {"pro", "academic", "advisor", "enterprise"}
      [] name \in {"argument_coherence", "citation_architecture",
                   "academic_voice"} -> {"academic", "advisor"}
      [] name = "acquisition_score" -> {"enterprise"}
      [] OTHER -> {}

TYPE_MAP(name) == IF name \in AnalysisType THEN name ELSE "None"

_get_user_manuscript_any_owner(mid) == manuscripts[mid].exists

\* select(Manuscript).where(id == manuscript_id, user_id == user.id)
_get_user_manuscript(mid) ==
    manuscripts[mid].exists /\ manuscripts[mid].owner = Caller

TierAllowedNoCheck(t, name) == TRUE

\* `current_user.tier not in allowed_tiers` negated
TierAllowed(t, name) == t \in TIER_ACCESS(name)

\* the status code of the checks run_analysis makes before it creates the row;
\* 0 when the request passes them all
RunAnalysisChecks(mid, name) ==
    IF ~_get_user_manuscript(mid) THEN 404
    ELSE IF ~TierAllowed(tier, name) THEN 403
    ELSE IF TYPE_MAP(name) = "None" THEN 400
    ELSE 0

InitialStatusDefault == PENDING

\* the status run_analysis passes to the AnalysisResult constructor
InitialStatus == RUNNING

NewAnalysis(mid, name) ==
    [manuscript_id |-> mid, analysis_type |-> TYPE_MAP(name),
     status |-> InitialStatus, results_json |-> "null",
     history |-> <<InitialStatus>>]

\* POST /analysis/run up to the first flush: reject, or persist the row
RunAnalysis(mid, name) ==
    /\ app = "api"
    /\ Len(requests) < MaxRuns
    /\ LET code == RunAnalysisChecks(mid, name) IN
       IF code # 0
       THEN /\ requests' = Append(requests,
                 [manuscript_id |-> mid, analysis_type |-> name, pc |-> "rejected",
                  code |-> code, row |-> 0, calls |-> 0, raised |-> FALSE,
                  reply |-> ""])
            /\ UNCHANGED <<analysis_results, next_id>>
       ELSE /\ analysis_results' =
                 [id \in DOMAIN analysis_results \cup {next_id} |->
                    IF id = next_id THEN NewAnalysis(mid, name)
                    ELSE analysis_results[id]]
            /\ next_id' = next_id + 1
            /\ requests' = Append(requests,
                 [manuscript_id |-> mid, analysis_type |-> name, pc |-> "running",
                  code |-> 0, row |-> next_id, calls |-> 0, raised |-> FALSE,
                  reply |-> ""])
    /\ UNCHANGED <<app, tier, manuscripts, nonApiVars>>

\* the modules whose generator awaits claude.analyze_json once
GatewayModules ==
    {"xray", "intelligence_engine", "prose_refinery", "voice_isolation",
     "pacing_architect", "character_arc", "argument_coherence",
     "citation_architecture", "academic_voice"}

\* compute_acquisition_score: `if raw_text and claude`
AssessesOriginality(mid) == manuscripts[mid].raw_text # ""

NeedsGateway(req) ==
    \/ req.analysis_type \in GatewayModules
    \/ /\ req.analysis_type = "acquisition_score"
       /\ AssessesOriginality(req.manuscript_id)

\* what the gateway call can come back with
GatewayOutcomes == {"object", "non_object", "unparsable", "api_error"}

\* ClaudeClient.analyze_json: raises unless the reply parses as JSON
AnalyzeJsonRaises(outcome) == outcome \in {"unparsable", "api_error"}

\* a generator run_* raises when analyze_json raises or when the parsed value
\* is no object (result["local_stats"] = ... on it)
GeneratorRaises(outcome) == AnalyzeJsonRaises(outcome) \/ outcome = "non_object"

\* _assess_originality: `except Exception: return 50`, nothing reaches the caller
OriginalityRaises(outcome) == FALSE

OnExceptionKeepsRunning(a) == [a EXCEPT !.results_json = "error"]

\* run_analysis, the except branch
OnException(a) ==
    [a EXCEPT !.status = FAILED, !.results_json = "error",
              !.history = Append(@, FAILED)]

\* run_analysis, the end of the try block
OnSuccess(a) ==
    [a EXCEPT !.status = COMPLETED, !.results_json = "result",
              !.history = Append(@, COMPLETED)]

\* the request i ends: `caught` says whether an exception reached run_analysis's
\* except branch, `any` whether one was raised at all during generation, `reply`
\* what the gateway call came back with ("" without a call)
Finish(i, caught, any, reply) ==
    LET req == requests[i] IN
    /\ analysis_results' =
         [analysis_results EXCEPT ![req.row] =
            IF caught THEN OnException(@) ELSE OnSuccess(@)]
    /\ requests' = [requests EXCEPT ![i].pc = "done",
                                    ![i].code = IF caught THEN 500 ELSE 201,
                                    ![i].raised = any,
                                    ![i].reply = reply]
    /\ UNCHANGED <<app, tier, manuscripts, next_id, nonApiVars>>

\* the generator sends its one prompt to the gateway
CallGateway(i) ==
    /\ app = "api"
    /\ i \in DOMAIN requests
    /\ requests[i].pc = "running"
    /\ NeedsGateway(requests[i])
    /\ requests' = [requests EXCEPT ![i].pc = "awaiting", ![i].calls = @ + 1]
    /\ UNCHANGED <<app, tier, manuscripts, analysis_results, next_id, nonApiVars>>

\* the gateway call returns; the rest of the try block runs without awaiting
GatewayReturn(i, outcome, computeRaises) ==
    /\ app = "api"
    /\ i \in DOMAIN requests
    /\ requests[i].pc = "awaiting"
    /\ IF requests[i].analysis_type = "acquisition_score"
       THEN Finish(i, OriginalityRaises(outcome) \/ computeRaises,
                   GeneratorRaises(outcome) \/ computeRaises, outcome)
       ELSE /\ computeRaises = FALSE
            /\ Finish(i, GeneratorRaises(outcome), GeneratorRaises(outcome), outcome)

\* revision_center, and acquisition_score on an empty text: no gateway call;
\* aggregate_edit_queue / the weighted sum may raise on the stored results
ComputeLocal(i, computeRaises) ==
    /\ app = "api"
    /\ i \in DOMAIN requests
    /\ requests[i].pc = "running"
    /\ ~NeedsGateway(requests[i])
    /\ Finish(i, computeRaises, computeRaises, "")

InFlight(mid) ==
    \E i \in DOMAIN requests :
        requests[i].manuscript_id = mid /\ requests[i].pc \in {"running", "awaiting"}

\* DELETE /manuscripts/{id}; Manuscript.analyses cascades "all, delete-orphan"
DeleteManuscript(mid) ==
    /\ app = "api"
    /\ _get_user_manuscript(mid)
    /\ ~InFlight(mid)
    /\ manuscripts' = [manuscripts EXCEPT ![mid].exists = FALSE]
    /\ analysis_results' =
         [id \in {x \in DOMAIN analysis_results :
                    analysis_results[x].manuscript_id # mid} |-> analysis_results[id]]
    /\ UNCHANGED <<app, tier, next_id, requests, nonApiVars>>

\* PATCH /auth/me/upgrade
UpgradeTier(t) ==
    /\ app = "api"
    /\ t # tier
    /\ tier' = t
    /\ UNCHANGED <<app, manuscripts, analysis_results, next_id, requests, nonApiVars>>


\* ------------------------------------------------- severity sort (shared)
\* list.sort(key=lambda x: severity_order.get(x["severity"], 3)): Python's sort
\* is stable, so the result is the items of rank 0, then 1, 2, 3, each group in
\* its original order
Bucket(items, ranks, r) ==
    LET keyed == [n \in 1..Len(items) |-> [item |-> items[n], rank |-> ranks[n]]]
        group == SelectSeq(keyed, LAMBDA x : x.rank = r)
    IN [n \in 1..Len(group) |-> group[n].item]

SortByRankReversedTies(items, ranks) ==
    LET Rev(s) == [i \in 1..Len(s) |-> s[Len(s) + 1 - i]] IN
    Rev(Bucket(items, ranks, 0)) \o Rev(Bucket(items, ranks, 1))
        \o Rev(Bucket(items, ranks, 2)) \o Rev(Bucket(items, ranks, 3))

\* items sorted by ranks, where ranks[n] is the key of items[n]
SortByRank(items, ranks) ==
    Bucket(items, ranks, 0) \o Bucket(items, ranks, 1)
        \o Bucket(items, ranks, 2) \o Bucket(items, ranks, 3)

\* ------------------------------------------------------- engine: data model
AnalysisModule ==
    {"manuscript_intelligence", "voice_isolation", "pacing_architect",
     "character_arc", "prose_refinery", "revision_command"}

REVISION_COMMAND == "revision_command"

Severity == {"HIGH", "MEDIUM", "LOW"}
EditItemStatus == {"PENDING", "ACCEPTED", "REJECTED"}

\* run_full_analysis: modules_and_generators, with the progress each one sets
modules_and_generators ==
    << [module |-> "manuscript_intelligence", progress |-> 25],
       [module |-> "voice_isolation", progress |-> 40],
       [module |-> "pacing_architect", progress |-> 55],
       [module |-> "character_arc", progress |-> 70],
       [module |-> "prose_refinery", progress |-> 85] >>

\* the `modules` lists a request may carry; <<>> stands for no list (run all)
ModuleLists ==
    {<<>>} \cup {<<m>> : m \in AnalysisModule \cup {"bogus"}}
           \cup {<<"voice_isolation", "voice_isolation">>,
                 <<"prose_refinery", "revision_command">>}

\* the severities of the findings generate_revision_command extracts, in
\* extraction order (the generators' data is random mock data)
FindingLists ==
    {<<>>, <<"MEDIUM">>, <<"LOW", "HIGH">>, <<"HIGH", "MEDIUM">>}

\* generate_revision_command: severity_order = {"HIGH": 0, "MEDIUM": 1, "LOW": 2}
RevisionSeverityRank(item) ==
    CASE item.severity = "HIGH" -> 0
      [] item.severity = "MEDIUM" -> 1
      [] item.severity = "LOW" -> 2
      [] OTHER -> 3

\* generate_revision_command: ids len(edit_queue)+1 at extraction, the sort, then
\* "Re-number after sort"
generate_revision_command(findings) ==
    LET extracted == [n \in 1..Len(findings) |->
                        [id |-> n, severity |-> findings[n], finding |-> n,
                         status |-> "PENDING"]]
        sorted == SortByRank(extracted, [n \in 1..Len(extracted) |->
                                           RevisionSeverityRank(extracted[n])])
    IN [n \in 1..Len(sorted) |-> [sorted[n] EXCEPT !.id = n]]

EmptySession ==
    [del_results |-> {}, add_results |-> <<>>, del_items |-> {}, add_items |-> <<>>]

\* ------------------------------------------------ engine: session and commit
DeleteResultsAllModules(sess, module) ==
    [sess EXCEPT !.del_results = DOMAIN results, !.add_results = <<>>]

\* db.query(AnalysisResult).filter(manuscript_id ==, module ==).delete()
DeleteResults(sess, module) ==
    [sess EXCEPT
       !.del_results = @ \cup {id \in DOMAIN results : results[id].module = module},
       !.add_results = SelectSeq(@, LAMBDA m : m # module)]

\* db.add(AnalysisResult(manuscript_id, module, result_json, version=1))
AddResult(sess, module) == [sess EXCEPT !.add_results = Append(@, module)]

DeleteEditQueueKeepsDecided(sess) ==
    [sess EXCEPT !.del_items =
        {id \in DOMAIN edit_queue : edit_queue[id].status = "PENDING"}]

\* db.query(EditQueueItem).filter(manuscript_id ==).delete()
DeleteEditQueue(sess) ==
    [sess EXCEPT !.del_items = DOMAIN edit_queue, !.add_items = <<>>]

\* for item in revision_data["edit_queue"]: db.add(EditQueueItem(..., PENDING))
AddEditQueueItems(sess, queue, upto) ==
    [sess EXCEPT !.add_items =
        [n \in 1..upto |->
            [severity |-> queue[n].severity, finding |-> queue[n].finding,
             status |-> "PENDING"]]]

CommitResultsKeepsOld(sess, run) ==
    LET n == Len(sess.add_results)
        new == next_result_id .. (next_result_id + n - 1)
    IN [id \in DOMAIN results \cup new |->
          IF id \in new
          THEN [module |-> sess.add_results[id - next_result_id + 1], run |-> run]
          ELSE results[id]]

\* db.commit(): the session's deletes and inserts reach the tables
CommitResults(sess, run) ==
    LET kept == DOMAIN results \ sess.del_results
        n == Len(sess.add_results)
        new == next_result_id .. (next_result_id + n - 1)
    IN [id \in kept \cup new |->
          IF id \in new
          THEN [module |-> sess.add_results[id - next_result_id + 1], run |-> run]
          ELSE results[id]]

CommitEditQueue(sess, run) ==
    LET kept == DOMAIN edit_queue \ sess.del_items
        n == Len(sess.add_items)
        new == next_item_id .. (next_item_id + n - 1)
    IN [id \in kept \cup new |->
          IF id \in new
          THEN [severity |-> sess.add_items[id - next_item_id + 1].severity,
                finding |-> sess.add_items[id - next_item_id + 1].finding,
                status |-> sess.add_items[id - next_item_id + 1].status,
                run |-> run]
          ELSE edit_queue[id]]

Commit(i, sess) ==
    /\ results' = CommitResults(sess, i)
    /\ edit_queue' = CommitEditQueue(sess, i)
    /\ next_result_id' = next_result_id + Len(sess.add_results)
    /\ next_item_id' = next_item_id + Len(sess.add_items)

\* --------------------------------------------------- engine: analyze_manuscript
\* all_results[module.value] = ... and results[mod_name] = ...: the keys of the
\* dict whose list is the response's modules_completed, in insertion order
AddKey(keys, module) ==
    IF \E n \in DOMAIN keys : keys[n] = module THEN keys ELSE Append(keys, module)

\* the checks analyze_manuscript makes before it runs anything
AnalyzeChecks(mid, modules) ==
    IF ~(mid = 1 /\ manuscript.exists) THEN [code |-> 404, detail |-> "not_found"]
    ELSE IF manuscript.status = "ANALYZING"
         THEN [code |-> 400, detail |-> "in_progress"]
    ELSE IF manuscript.extracted_text = ""
         THEN [code |-> 400, detail |-> "no_text"]
    ELSE IF \E n \in DOMAIN modules : modules[n] \notin AnalysisModule
         THEN [code |-> 400, detail |-> "invalid_module"]
    ELSE [code |-> 0, detail |-> ""]

\* POST /manuscripts/{id}/analyze up to the end of its checks
AnalyzeManuscript(mid, modules) ==
    /\ app = "engine"
    /\ Len(analyze) < MaxAnalyze
    /\ LET chk == AnalyzeChecks(mid, modules) IN
       analyze' = Append(analyze,
          [manuscript_id |-> mid, modules |-> modules,
           pc |-> IF chk.code # 0 THEN "rejected"
                  ELSE IF modules = <<>> THEN "mark" ELSE "single_delete",
           k |-> 1, code |-> chk.code, detail |-> chk.detail,
           sess |-> EmptySession, queue |-> <<>>, replaced |-> {},
           completed |-> <<>>])
    /\ UNCHANGED <<app, nonAnalyzeVars, manuscript, results, edit_queue,
                   next_result_id, next_item_id>>

ExceptKeepsStatus(i) ==
    /\ manuscript' = [manuscript EXCEPT !.error_message = "error"]
    /\ Commit(i, analyze[i].sess)
    /\ analyze' = [analyze EXCEPT ![i].pc = "done", ![i].code = 500,
                                  ![i].sess = EmptySession]

\* analyze_manuscript, `except Exception`: ERROR is committed, and with it
\* whatever the session holds
Except(i) ==
    /\ manuscript' = [manuscript EXCEPT !.status = "ERROR", !.error_message = "error"]
    /\ Commit(i, analyze[i].sess)
    /\ analyze' = [analyze EXCEPT ![i].pc = "done", ![i].code = 500,
                                  ![i].sess = EmptySession]

At(i, pc) == app = "engine" /\ i \in DOMAIN analyze /\ analyze[i].pc = pc

\* run_full_analysis: status ANALYZING, progress 10, commit
MarkAnalyzing(i) ==
    /\ At(i, "mark")
    /\ manuscript' = [manuscript EXCEPT !.status = "ANALYZING",
                                        !.progress_percent = 10]
    /\ analyze' = [analyze EXCEPT ![i].pc = "delete"]
    /\ UNCHANGED <<app, nonAnalyzeVars, results, edit_queue, next_result_id, next_item_id>>

\* run_full_analysis, loop body up to the delete: generator(...), then
\* "Delete old results for this module"
FullDelete(i, raises) ==
    /\ At(i, "delete")
    /\ IF raises
       THEN Except(i)
       ELSE /\ analyze' = [analyze EXCEPT
                 ![i].sess = DeleteResults(@, modules_and_generators[analyze[i].k].module),
                 ![i].completed = AddKey(@, modules_and_generators[analyze[i].k].module),
                 ![i].pc = "commit"]
            /\ UNCHANGED <<manuscript, results, edit_queue, next_result_id, next_item_id>>
    /\ UNCHANGED <<app, nonAnalyzeVars>>

\* run_full_analysis, loop body from db.add to db.commit
FullCommit(i) ==
    /\ At(i, "commit")
    /\ LET mg == modules_and_generators[analyze[i].k]
           last == analyze[i].k = Len(modules_and_generators)
       IN /\ Commit(i, AddResult(analyze[i].sess, mg.module))
          /\ manuscript' = [manuscript EXCEPT !.progress_percent = mg.progress]
          /\ analyze' = [analyze EXCEPT
               ![i].sess = EmptySession,
               ![i].k = IF last THEN @ ELSE @ + 1,
               ![i].pc = IF last THEN "rev_delete" ELSE "delete"]
    /\ UNCHANGED <<app, nonAnalyzeVars>>

\* run_full_analysis: generate_revision_command, then the delete of the old
\* revision_command row
RevDelete(i, findings, raises) ==
    /\ At(i, "rev_delete")
    /\ IF raises
       THEN Except(i)
       ELSE /\ analyze' = [analyze EXCEPT
                 ![i].queue = generate_revision_command(findings),
                 ![i].sess = DeleteResults(@, REVISION_COMMAND),
                 ![i].completed = AddKey(@, REVISION_COMMAND),
                 ![i].pc = "eq_delete"]
            /\ UNCHANGED <<manuscript, results, edit_queue, next_result_id, next_item_id>>
    /\ UNCHANGED <<app, nonAnalyzeVars>>

\* run_full_analysis: db.add of the revision_command row, then the delete of the
\* manuscript's edit queue items
EqDelete(i) ==
    /\ At(i, "eq_delete")
    /\ analyze' = [analyze EXCEPT
         ![i].sess = DeleteEditQueue(AddResult(@, REVISION_COMMAND)),
         ![i].replaced = {edit_queue[id].status : id \in DOMAIN edit_queue},
         ![i].pc = "final_commit"]
    /\ UNCHANGED <<app, nonAnalyzeVars, manuscript, results, edit_queue,
                   next_result_id, next_item_id>>

\* run_full_analysis: the new EditQueueItem rows, COMPLETE, progress 100, commit
FinalCommit(i) ==
    /\ At(i, "final_commit")
    /\ Commit(i, AddEditQueueItems(analyze[i].sess, analyze[i].queue,
                                   Len(analyze[i].queue)))
    /\ manuscript' = [manuscript EXCEPT !.status = "COMPLETE",
                                        !.progress_percent = 100]
    /\ analyze' = [analyze EXCEPT ![i].pc = "done", ![i].code = 200,
                                  ![i].sess = EmptySession]
    /\ UNCHANGED <<app, nonAnalyzeVars>>

\* run_single_module up to "Update or create result": the generator (for
\* revision_command the stored or generated other modules first), then the delete
SingleDelete(i, raises) ==
    /\ At(i, "single_delete")
    /\ IF raises
       THEN Except(i)
       ELSE /\ analyze' = [analyze EXCEPT
                 ![i].sess = DeleteResults(@, analyze[i].modules[analyze[i].k]),
                 ![i].pc = "single_commit"]
            /\ UNCHANGED <<manuscript, results, edit_queue, next_result_id, next_item_id>>
    /\ UNCHANGED <<app, nonAnalyzeVars>>

\* run_single_module from db.add to db.commit
SingleCommit(i) ==
    /\ At(i, "single_commit")
    /\ LET last == analyze[i].k = Len(analyze[i].modules) IN
       /\ Commit(i, AddResult(analyze[i].sess, analyze[i].modules[analyze[i].k]))
       /\ analyze' = [analyze EXCEPT
            ![i].sess = EmptySession,
            ![i].completed = AddKey(@, analyze[i].modules[analyze[i].k]),
            ![i].k = IF last THEN @ ELSE @ + 1,
            ![i].pc = IF last THEN "modules_finish" ELSE "single_delete"]
    /\ UNCHANGED <<app, nonAnalyzeVars, manuscript>>

\* analyze_manuscript after the module list: COMPLETE, progress 100, commit
ModulesFinish(i) ==
    /\ At(i, "modules_finish")
    /\ manuscript' = [manuscript EXCEPT !.status = "COMPLETE",
                                        !.progress_percent = 100]
    /\ analyze' = [analyze EXCEPT ![i].pc = "done", ![i].code = 200]
    /\ UNCHANGED <<app, nonAnalyzeVars, results, edit_queue, next_result_id, next_item_id>>

\* the status strings a PATCH body may carry; EditItemStatus(value) raises
\* ValueError on the last two
PatchStatuses == EditItemStatus \cup {"accepted", "bogus"}

\* update_edit_queue_item: db.query(EditQueueItem).filter(id ==, manuscript_id ==)
ItemLookup(mid, item_id) == mid = 1 /\ item_id \in DOMAIN edit_queue

UpdateChecksAnyStatus(mid, item_id, status) ==
    IF mid = 1 /\ manuscript.exists /\ ItemLookup(mid, item_id)
    THEN [code |-> 200, detail |-> ""]
    ELSE [code |-> 404, detail |-> "not_found"]

\* the checks of update_edit_queue_item, in the handler's order
UpdateChecks(mid, item_id, status) ==
    IF ~(mid = 1 /\ manuscript.exists)
    THEN [code |-> 404, detail |-> "manuscript_not_found"]
    ELSE IF ~ItemLookup(mid, item_id)
         THEN [code |-> 404, detail |-> "item_not_found"]
    ELSE IF status \notin EditItemStatus
         THEN [code |-> 400, detail |-> "invalid_status"]
    ELSE [code |-> 200, detail |-> ""]

\* PATCH /manuscripts/{id}/edit-queue/{item_id}
UpdateEditQueueItem(mid, item_id, status) ==
    /\ app = "engine"
    /\ LET chk == UpdateChecks(mid, item_id, status) IN
       /\ edit_queue' = IF chk.code = 200
                         THEN [edit_queue EXCEPT ![item_id].status = status]
                         ELSE edit_queue
       /\ patched' = <<[manuscript_id |-> mid, item_id |-> item_id,
                        status |-> status, code |-> chk.code, detail |-> chk.detail,
                        data |-> IF chk.code = 200
                                 THEN <<[id |-> item_id, status |-> status]>>
                                 ELSE <<>>]>>
    /\ UNCHANGED <<app, nonEngineVars, manuscript, results, next_result_id,
                   next_item_id, analyze>>

\* no analyze request is between its checks and its response
Idle == \A j \in DOMAIN analyze : analyze[j].pc \in {"rejected", "done"}

\* ------------------------------------------------------ aggregate_edit_queue
\* results.get(<list>, []) of one analysis; a severity "absent" is a finding
\* without the key
NoFindings ==
    [duplication |-> <<>>, timeline |-> <<>>, show_vs_tell |-> <<>>, tics |-> <<>>,
     jargon_bleed |-> <<>>, similarity |-> <<>>, breathing |-> <<>>, slow |-> <<>>,
     inconsistencies |-> <<>>]

\* the analyses a call may be given
SampleAnalyses ==
    { [analysis_type |-> "intelligence_engine",
       results |-> [NoFindings EXCEPT !.duplication = <<90, 80>>,
                                      !.timeline = <<"low">>]],
      [analysis_type |-> "xray",
       results |-> [NoFindings EXCEPT !.timeline = <<"critical", "absent">>]],
      [analysis_type |-> "prose_refinery",
       results |-> [NoFindings EXCEPT !.show_vs_tell = <<"low", "high">>,
                                      !.tics = <<"low", "medium", "absent">>]],
      [analysis_type |-> "voice_isolation",
       results |-> [NoFindings EXCEPT
                      !.jargon_bleed = <<"bleed">>,
                      !.similarity = << [flagged |-> TRUE, similarity_score |-> 80],
                                        [flagged |-> FALSE, similarity_score |-> 90],
                                        [flagged |-> TRUE, similarity_score |-> 60] >>]],
      [analysis_type |-> "pacing_architect",
       results |-> [NoFindings EXCEPT !.breathing = <<"flag">>, !.slow = <<"flag">>]],
      [analysis_type |-> "character_arc",
       results |-> [NoFindings EXCEPT
                      !.inconsistencies = <<"low", "high", "medium", "high">>]],
      [analysis_type |-> "character_arc",
       results |-> [NoFindings EXCEPT !.inconsistencies = <<"absent", "high">>]],
      [analysis_type |-> "revision_center",
       results |-> [NoFindings EXCEPT !.timeline = <<"high">>]] }

RECURSIVE AnalysesUpTo(_)
AnalysesUpTo(n) ==
    IF n = 0 THEN {<<>>}
    ELSE LET shorter == AnalysesUpTo(n - 1) IN
         shorter \cup {Append(s, a) : s \in shorter, a \in SampleAnalyses}

\* x.get("severity", "medium")
SeverityOr(sev) == IF sev = "absent" THEN "medium" ELSE sev

Finding(module, finding_type, severity) ==
    [module |-> module, finding_type |-> finding_type, severity |-> severity]

\* the findings of one analysis, in the order the loop body appends them
FindingsOf(a) ==
    LET r == a.results
        t == a.analysis_type
        Map(s, F(_)) == [n \in 1..Len(s) |-> F(s[n])]
        Dup(p) == Finding("intelligence_engine", "duplication",
                          IF p > 85 THEN "high" ELSE "medium")
        Anom(sv) == Finding("intelligence_engine", "timeline_anomaly", SeverityOr(sv))
        Svt(sv) == Finding("prose_refinery", "show_vs_tell", SeverityOr(sv))
        Tic(sv) == Finding("prose_refinery", "writing_tic", SeverityOr(sv))
        IsTic(sv) == sv \in {"high", "medium"}
        Bleed(b) == Finding("voice_isolation", "jargon_bleed", "medium")
        Sim(x) == Finding("voice_isolation", "voice_similarity",
                          IF x.similarity_score > 75 THEN "high" ELSE "medium")
        Flagged(x) == x.flagged
        Breath(f) == Finding("pacing_architect", "breathing_space", "medium")
        Slow(f) == Finding("pacing_architect", "slow_zone", "medium")
        Incon(sv) == Finding("character_arc", "arc_inconsistency", SeverityOr(sv))
    IN  (IF t \in {"xray", "intelligence_engine"}
         THEN Map(r.duplication, Dup) \o Map(r.timeline, Anom) ELSE <<>>)
     \o (IF t = "prose_refinery"
         THEN Map(r.show_vs_tell, Svt) \o Map(SelectSeq(r.tics, IsTic), Tic) ELSE <<>>)
     \o (IF t = "voice_isolation"
         THEN Map(r.jargon_bleed, Bleed) \o Map(SelectSeq(r.similarity, Flagged), Sim)
         ELSE <<>>)
     \o (IF t = "pacing_architect"
         THEN Map(r.breathing, Breath) \o Map(r.slow, Slow) ELSE <<>>)
     \o (IF t = "character_arc" THEN Map(r.inconsistencies, Incon) ELSE <<>>)

RECURSIVE AllFindings(_)
AllFindings(list) ==
    IF list = <<>> THEN <<>>
    ELSE AllFindings(SubSeq(list, 1, Len(list) - 1)) \o FindingsOf(list[Len(list)])

\* queue_items before the sort: item_id += 1 for every appended item
Extracted(list) ==
    LET f == AllFindings(list) IN
    [n \in 1..Len(f) |->
        [id |-> n, module |-> f[n].module, finding_type |-> f[n].finding_type,
         severity |-> f[n].severity, status |-> "pending"]]

\* severity_order = {"high": 0, "medium": 1, "low": 2}; .get(severity, 3)
SeverityRank(item) ==
    CASE item.severity = "high" -> 0
      [] item.severity = "medium" -> 1
      [] item.severity = "low" -> 2
      [] OTHER -> 3

CountSeverity(items, sev) ==
    Cardinality({n \in 1..Len(items) : items[n].severity = sev})

aggregate_edit_queue(list) ==
    LET extracted == Extracted(list)
        queue_items == SortByRank(extracted, [n \in 1..Len(extracted) |->
                                               SeverityRank(extracted[n])])
    IN
    [items |-> queue_items,
     stats |-> [total |-> Len(queue_items),
                high |-> CountSeverity(queue_items, "high"),
                medium |-> CountSeverity(queue_items, "medium"),
                low |-> CountSeverity(queue_items, "low")]]

\* one call of aggregate_edit_queue
Aggregate ==
    /\ app = "aggregate"
    /\ aggregated = <<>>
    /\ aggregated' = <<aggregate_edit_queue(analyses)>>
    /\ UNCHANGED <<app, apiVars, engineVars, analyses, module_results, acquisition,
                   docVars, tenantVars>>

\* ------------------------------------------------- compute_acquisition_score
\* DEFAULT_WEIGHTS, in hundredths
DEFAULT_WEIGHTS ==
    [structural_integrity |-> 25, voice_distinctiveness |-> 20, pacing_quality |-> 20,
     prose_craft |-> 20, narrative_originality |-> 15]

Components == DOMAIN DEFAULT_WEIGHTS

\* the value a component is given: <<>> is a module with no result, or an
\* originality assessment that is not made or that falls back
ScoreValues == {<<>>, <<-10>>, <<0>>, <<45>>, <<100>>, <<130>>}

\* .get(<score>, 50)
ScoreOr50(v) == IF v = <<>> THEN 50 ELSE v[1]

\* sum(scores[c] * weights[c]) in hundredths
WeightedSum(scores, weights) ==
    scores.structural_integrity * weights.structural_integrity
    + scores.voice_distinctiveness * weights.voice_distinctiveness
    + scores.pacing_quality * weights.pacing_quality
    + scores.prose_craft * weights.prose_craft
    + scores.narrative_originality * weights.narrative_originality

Unclamped(x) == x

\* min(max(composite, 0), 100), in hundredths
Clamp(x) == IF x < 0 THEN 0 ELSE IF x > 10000 THEN 10000 ELSE x

\* round(): the nearest integer; the float sum of an exact half lands on either
\* side of it, so a half gives either neighbour
Round(x) ==
    LET q == x \div 100
        r == x % 100
    IN IF r < 50 THEN {q} ELSE IF r > 50 THEN {q + 1} ELSE {q, q + 1}

\* the values compute_acquisition_score can return as acquisition_score
compute_acquisition_score(given) ==
    LET scores == [c \in Components |-> ScoreOr50(given[c])] IN
    Round(Clamp(WeightedSum(scores, DEFAULT_WEIGHTS)))

SCORE_TIERS_BoundaryBelow ==
    << [low |-> 81, high |-> 101, label |-> "Strong Consider"],
       [low |-> 61, high |-> 81, label |-> "Consider"],
       [low |-> 41, high |-> 61, label |-> "Maybe"],
       [low |-> 0, high |-> 41, label |-> "Pass"] >>

\* SCORE_TIERS, in the dict's insertion order
SCORE_TIERS ==
    << [low |-> 80, high |-> 101, label |-> "Strong Consider"],
       [low |-> 60, high |-> 80, label |-> "Consider"],
       [low |-> 40, high |-> 60, label |-> "Maybe"],
       [low |-> 0, high |-> 40, label |-> "Pass"] >>

\* tier_label = "Pass"; the first (low, high) with low <= composite < high wins
TierLabel(composite) ==
    LET hits == {n \in 1..Len(SCORE_TIERS) :
                   SCORE_TIERS[n].low <= composite /\ composite < SCORE_TIERS[n].high}
    IN IF hits = {} THEN "Pass"
       ELSE SCORE_TIERS[CHOOSE n \in hits : \A m \in hits : n <= m].label

\* one call of compute_acquisition_score with the default weights
ComputeAcquisitionScore ==
    /\ app \in {"score", "tier"}
    /\ acquisition = <<>>
    /\ \E composite \in compute_acquisition_score(module_results) :
         acquisition' = <<[acquisition_score |-> composite,
                          tier |-> TierLabel(composite)]>>
    /\ UNCHANGED <<app, apiVars, engineVars, analyses, aggregated, module_results,
                   docVars, tenantVars>>

DocIdle ==
    /\ text = <<>> /\ detected = <<>>
    /\ raw_text = <<>> /\ prose_stats = <<>>

\* the advisor tables when the behaviour is about something else
AdvisorIdle ==
    /\ invitations = <<>>
    /\ assignments = <<>>
    /\ annotations = <<>>
    /\ redeems = <<>>
    /\ advisor_reply = <<>>

\* the enterprise tables when the behaviour is about something else
TenantIdle ==
    /\ user_tiers = <<>>
    /\ memberships = <<>>
    /\ next_org_id = 1
    /\ decisions = <<>>
    /\ tenant_reply = <<>>
    /\ AdvisorIdle

FnIdle ==
    /\ DocIdle
    /\ TenantIdle
    /\ analyses = <<>>
    /\ aggregated = <<>>
    /\ module_results = [c \in Components |-> <<>>]
    /\ acquisition = <<>>

\* ------------------------------------------------------------ detect_chapters
\* A text is a sequence of tokens: "NL" is a newline character, every other
\* token a whole non-empty line of one kind:
\*   H1 'Chapter 1: A'   a chapter heading with text after the number
\*   HB 'Chapter 2'      a chapter heading that ends with the number
\*   CP 'THE END'        a line of capitals and spaces
\*   PC 'It was dark.'   a line that starts with a capital
\*   PL 'and then.'      a line that starts with a small letter
\* Every match of the three patterns starts and ends between two tokens.
LineKinds == {"H1", "HB", "CP", "PC", "PL"}

\* the lines a text is made of; BL is an empty line, BL2 two empty lines
Lines == LineKinds \cup {"BL", "BL2"}

\* len() of a token
TokenLen(tok) ==
    CASE tok = "NL" -> 1
      [] tok = "H1" -> 12
      [] tok = "HB" -> 9
      [] tok = "CP" -> 7
      [] tok = "PC" -> 12
      [] tok = "PL" -> 9

RECURSIVE CharLen(_)
CharLen(toks) ==
    IF toks = <<>> THEN 0 ELSE TokenLen(toks[1]) + CharLen(Tail(toks))

\* "\n".join(lines)
RECURSIVE JoinLines(_)
JoinLines(lines) ==
    IF lines = <<>> THEN <<>>
    ELSE LET n == Len(lines)
             line == CASE lines[n] = "BL" -> <<>>
                       [] lines[n] = "BL2" -> <<"NL">>
                       [] OTHER -> <<lines[n]>>
         IN IF n = 1 THEN line
            ELSE JoinLines(SubSeq(lines, 1, n - 1)) \o <<"NL">> \o line

RECURSIVE LinesUpTo(_)
LinesUpTo(n) ==
    IF n = 0 THEN {<<>>}
    ELSE LET shorter == LinesUpTo(n - 1) IN
         shorter \cup {Append(s, l) : s \in shorter, l \in Lines}

\* the texts a call may be given
Texts == {JoinLines(lines) : lines \in LinesUpTo(MaxLines)}

\* str.strip()
RECURSIVE Strip(_)
Strip(toks) ==
    IF toks = <<>> THEN <<>>
    ELSE IF toks[1] = "NL" THEN Strip(Tail(toks))
    ELSE IF toks[Len(toks)] = "NL" THEN Strip(SubSeq(toks, 1, Len(toks) - 1))
    ELSE toks

\* ^ with re.MULTILINE
LineStart(toks, i) == i = 1 \/ toks[i - 1] = "NL"

\* a match: it starts before token `start`, and the group the title is taken
\* from is the tokens first..last
Match(start, first, last) == [start |-> start, first |-> first, last |-> last]

\* chapter_pattern.finditer(text) from token i on.  After the number,
\* [:\.\s] takes the ':' of H1 and .* the rest of the line; after the number of
\* HB it takes the newline, and .* then takes the whole of the next line; HB at
\* the end of the text has no character to take and does not match.
RECURSIVE chapter_pattern(_, _)
chapter_pattern(toks, i) ==
    IF i > Len(toks) THEN <<>>
    ELSE IF LineStart(toks, i) /\ toks[i] = "H1"
    THEN <<Match(i, i, i)>> \o chapter_pattern(toks, i + 1)
    ELSE IF LineStart(toks, i) /\ toks[i] = "HB" /\ i < Len(toks)
    THEN LET last == IF i + 2 <= Len(toks) /\ toks[i + 2] # "NL" THEN i + 2 ELSE i + 1
         IN <<Match(i, i, last)>> \o chapter_pattern(toks, last + 1)
    ELSE chapter_pattern(toks, i + 1)

\* caps_pattern.finditer(text) from token i on: [A-Z][A-Z\s]{2,40} runs over
\* capitals, spaces and newlines, 41 characters at most, and $ asks for a
\* newline or the end of the text after it; the longest such run is the match
RECURSIVE caps_pattern(_, _)
caps_pattern(toks, i) ==
    IF i > Len(toks) THEN <<>>
    ELSE IF LineStart(toks, i) /\ toks[i] = "CP"
    THEN LET ends == {k \in i..Len(toks) :
                        /\ \A j \in (i + 1)..k : toks[j] \in {"CP", "NL"}
                        /\ CharLen(SubSeq(toks, i, k)) <= 41
                        /\ (k = Len(toks) \/ toks[k + 1] = "NL")}
             last == CHOOSE k \in ends : \A j \in ends : j <= k
         IN IF ends = {} THEN caps_pattern(toks, i + 1)
            ELSE <<Match(i, i, last)>> \o caps_pattern(toks, last + 1)
    ELSE caps_pattern(toks, i + 1)

\* [A-Z][^\n]+ : a line that starts with a capital
Capitalized == {"H1", "HB", "CP", "PC"}

\* blank_pattern.finditer(text) from token i on: \n{3,} takes a whole run of
\* newlines, which has to be three long and followed by a capitalized line
RECURSIVE blank_pattern(_, _)
blank_pattern(toks, i) ==
    IF i > Len(toks) THEN <<>>
    ELSE IF toks[i] # "NL" THEN blank_pattern(toks, i + 1)
    ELSE LET after == {j \in i..Len(toks) : toks[j] # "NL"}
             j == IF after = {} THEN Len(toks) + 1
                  ELSE CHOOSE a \in after : \A b \in after : a <= b
         IN IF j - i >= 3 /\ j <= Len(toks) /\ toks[j] \in Capitalized
            THEN <<Match(i, j, j)>> \o blank_pattern(toks, j + 1)
            ELSE blank_pattern(toks, j)

\* the loop that turns the matches of one strategy into chapters
ChaptersOf(toks, matches) ==
    [n \in 1..Len(matches) |->
        LET start == matches[n].start
            end == IF n < Len(matches) THEN matches[n + 1].start - 1 ELSE Len(toks)
        IN [number |-> n,
            title |-> Strip(SubSeq(toks, matches[n].first, matches[n].last)),
            start_offset |-> CharLen(SubSeq(toks, 1, start - 1)),
            text |-> Strip(SubSeq(toks, start, end))]]

FullManuscriptStripped(toks) ==
    << [number |-> 1, title |-> <<"FULL">>, start_offset |-> 0, text |-> Strip(toks)] >>

\* the fallback chapter; the token FULL stands for the title 'Full Manuscript'
FullManuscript(toks) ==
    << [number |-> 1, title |-> <<"FULL">>, start_offset |-> 0, text |-> toks] >>

\* caps_matches: the matches whose stripped text is longer than 3 characters
CapsMatches(toks) ==
    SelectSeq(caps_pattern(toks, 1),
              LAMBDA m : CharLen(Strip(SubSeq(toks, m.first, m.last))) > 3)

\* the cascade: the first strategy with two matches or more, else the fallback
detect_chapters(toks) ==
    IF Len(chapter_pattern(toks, 1)) >= 2
    THEN ChaptersOf(toks, chapter_pattern(toks, 1))
    ELSE IF Len(CapsMatches(toks)) >= 2 THEN ChaptersOf(toks, CapsMatches(toks))
    ELSE IF Len(blank_pattern(toks, 1)) >= 2
    THEN ChaptersOf(toks, blank_pattern(toks, 1))
    ELSE FullManuscript(toks)

\* one call of detect_chapters
DetectChapters ==
    /\ app = "chapters"
    /\ detected = <<>>
    /\ detected' = <<detect_chapters(text)>>
    /\ UNCHANGED <<app, apiVars, engineVars, analyses, aggregated, module_results,
                   acquisition, text, raw_text, prose_stats, tenantVars>>


\* -------------------------------------------------- _compute_local_prose_stats
\* A raw text is a sequence of characters, each a one-character string.
UpperCase ==
    << "A", "B", "C", "D", "E", "F", "G", "H", "I", "J", "K", "L", "M", "N",
       "O", "P", "Q", "R", "S", "T", "U", "V", "W", "X", "Y", "Z" >>

LowerCase ==
    << "a", "b", "c", "d", "e", "f", "g", "h", "i", "j", "k", "l", "m", "n",
       "o", "p", "q", "r", "s", "t", "u", "v", "w", "x", "y", "z" >>

Digits == {"0", "1", "2", "3", "4", "5", "6", "7", "8", "9"}

\* str.lower(), one character at a time
Lower(c) ==
    IF \E n \in 1..26 : UpperCase[n] = c
    THEN LowerCase[CHOOSE n \in 1..26 : UpperCase[n] = c]
    ELSE c

LowerText(chars) == [n \in 1..Len(chars) |-> Lower(chars[n])]

\* the characters the regular expression class \w matches
WordChar(c) ==
    \/ \E n \in 1..26 : c = UpperCase[n] \/ c = LowerCase[n]
    \/ c \in Digits
    \/ c = "_"

\* FILTER_WORDS, "Common filter/hedging words per the RDD"
FILTER_WORDS ==
    << <<"s", "e", "e", "m", "e", "d">>,
       <<"a", "p", "p", "e", "a", "r", "e", "d">>,
       <<"f", "e", "l", "t">>,
       <<"n", "o", "t", "i", "c", "e", "d">>,
       <<"r", "e", "a", "l", "i", "z", "e", "d">>,
       <<"w", "o", "n", "d", "e", "r", "e", "d">>,
       <<"t", "h", "o", "u", "g", "h", "t">>,
       <<"k", "n", "e", "w">>,
       <<"s", "a", "w">>,
       <<"h", "e", "a", "r", "d">>,
       <<"w", "a", "t", "c", "h", "e", "d">>,
       <<"l", "o", "o", "k", "e", "d">>,
       <<"b", "e", "g", "a", "n", " ", "t", "o">>,
       <<"s", "t", "a", "r", "t", "e", "d", " ", "t", "o">>,
       <<"t", "r", "i", "e", "d", " ", "t", "o">>,
       <<"m", "a", "n", "a", "g", "e", "d", " ", "t", "o">>,
       <<"s", "o", "m", "e", "w", "h", "a", "t">>,
       <<"s", "l", "i", "g", "h", "t", "l", "y">>,
       <<"a", " ", "b", "i", "t">>,
       <<"a", " ", "l", "i", "t", "t", "l", "e">>,
       <<"r", "a", "t", "h", "e", "r">>,
       <<"v", "e", "r", "y">>,
       <<"r", "e", "a", "l", "l", "y">>,
       <<"q", "u", "i", "t", "e">>,
       <<"j", "u", "s", "t">>,
       <<"a", "c", "t", "u", "a", "l", "l", "y">>,
       <<"b", "a", "s", "i", "c", "a", "l", "l", "y">>,
       <<"p", "r", "a", "c", "t", "i", "c", "a", "l", "l", "y">>,
       <<"v", "i", "r", "t", "u", "a", "l", "l", "y">>,
       <<"l", "i", "t", "e", "r", "a", "l", "l", "y">>,
       <<"s", "i", "m", "p", "l", "y">> >>

\* \b at position n of chars: just one of the characters before and at n is a
\* word character (outside the text counts as none)
Boundary(chars, n) ==
    LET before == n > 1 /\ WordChar(chars[n - 1])
        after == n <= Len(chars) /\ WordChar(chars[n])
    IN before # after

MatchAtSubstring(chars, fw, n) ==
    /\ n + Len(fw) - 1 <= Len(chars)
    /\ SubSeq(chars, n, n + Len(fw) - 1) = fw

\* r'\b' + re.escape(fw) + r'\b' matches at position n
MatchAt(chars, fw, n) ==
    /\ n + Len(fw) - 1 <= Len(chars)
    /\ Boundary(chars, n)
    /\ SubSeq(chars, n, n + Len(fw) - 1) = fw
    /\ Boundary(chars, n + Len(fw))

\* len(re.findall(pattern, lower_text)): the matches found scanning from the
\* left, each search resuming where the last match ended
RECURSIVE FindAll(_, _, _)
FindAll(chars, fw, n) ==
    IF n > Len(chars) THEN 0
    ELSE IF MatchAt(chars, fw, n) THEN 1 + FindAll(chars, fw, n + Len(fw))
    ELSE FindAll(chars, fw, n + 1)

\* filter_word_counts.sort(key=lambda x: x["count"], reverse=True): the stable
\* sort, largest count first, entries of equal count in vocabulary order
RECURSIVE SortByCountReversed(_, _)
SortByCountReversed(entries, r) ==
    IF r = 0 THEN <<>>
    ELSE Bucket(entries, [n \in 1..Len(entries) |-> entries[n].count], r)
            \o SortByCountReversed(entries, r - 1)

RECURSIVE SumCounts(_)
SumCounts(entries) ==
    IF entries = <<>> THEN 0 ELSE entries[1].count + SumCounts(Tail(entries))

\* the filter word part of the dict _compute_local_prose_stats returns
_compute_local_prose_stats(chars) ==
    LET lower_text == LowerText(chars)
        counted == [k \in 1..Len(FILTER_WORDS) |->
                      [word |-> FILTER_WORDS[k],
                       count |-> FindAll(lower_text, FILTER_WORDS[k], 1)]]
        filter_word_counts ==
            SortByCountReversed(SelectSeq(counted, LAMBDA e : e.count > 0),
                                Len(chars))
    IN [filter_word_counts |-> filter_word_counts,
        total_filter_words |-> SumCounts(filter_word_counts)]

\* the spec's example text
Example ==
    << "S", "h", "e", " ", "j", "u", "s", "t", " ", "w", "a", "n", "t", "e",
       "d", " ", "t", "o", " ", "j", "u", "s", "t", " ", "l", "e", "a", "v",
       "e", "." >>

\* the pieces the texts are put together from: a filter word in two spellings,
\* the two halves of a filter phrase, a suffix that makes another word of
\* "just", a space, a full stop and an underscore
Pieces ==
    { <<"j", "u", "s", "t">>, <<"J", "u", "s", "t">>, <<"a">>, <<"b", "i", "t">>,
      <<"i", "c", "e">>, <<" ">>, <<".">>, <<"_">> }

RECURSIVE RawTextsUpTo(_)
RawTextsUpTo(n) ==
    IF n = 0 THEN {<<>>}
    ELSE RawTextsUpTo(n - 1)
            \cup {t \o piece : t \in RawTextsUpTo(n - 1), piece \in Pieces}

RawTexts == RawTextsUpTo(MaxPieces) \cup {Example}

\* one call of _compute_local_prose_stats
ComputeLocalProseStats ==
    /\ app = "prose"
    /\ prose_stats = <<>>
    /\ prose_stats' = <<_compute_local_prose_stats(raw_text)>>
    /\ UNCHANGED <<app, apiVars, engineVars, analyses, aggregated, module_results,
                   acquisition, text, detected, raw_text, tenantVars>>

\* ------------------------------------------------------ enterprise: data model
Users == {1, 2, 3}

EnterpriseRole == {"reader", "editor", "director", "admin"}

\* the role strings a request may carry
RoleInputs == EnterpriseRole \cup {"bogus"}

\* DecisionStage, in declaration order
DecisionStage ==
    <<"unreviewed", "reader_reviewed", "editor_recommended", "director_decision">>

DecisionOutcome == {"pending", "acquire", "consider", "revise_resubmit", "pass"}

\* the `outcome` of an AdvanceWorkflowRequest; "" stands for None
OutcomeInputs == {"", "acquire", "bogus"}

\* the manuscript_ids of a BatchPassRequest
BatchLists == {<<>>, <<1>>, <<2>>, <<2, 1>>}

\* _get_membership: scalar_one_or_none over the caller's active memberships; it
\* raises MultipleResultsFound (a 500) when there are two
_get_membership(u) ==
    LET rows == {id \in DOMAIN memberships :
                    memberships[id].user_id = u /\ memberships[id].is_active}
    IN IF rows = {} THEN [code |-> 403, id |-> 0]
       ELSE IF Cardinality(rows) > 1 THEN [code |-> 500, id |-> 0]
       ELSE [code |-> 0, id |-> CHOOSE id \in rows : TRUE]

\* _require_enterprise, then _require_role (or _get_membership alone when every
\* role is allowed)
_require_role(u, min_roles) ==
    IF user_tiers[u] # "enterprise" THEN [code |-> 403, id |-> 0]
    ELSE LET m == _get_membership(u) IN
         IF m.code # 0 THEN m
         ELSE IF memberships[m.id].role \notin min_roles THEN [code |-> 403, id |-> 0]
         ELSE m

\* the response of an enterprise request
Reply(op, u, target, code) ==
    tenant_reply' = <<[op |-> op, user |-> u, target |-> target, code |-> code]>>

\* ------------------------------------------------ enterprise: organizations
\* POST /enterprise/org
create_organization(u) ==
    /\ app = "enterprise"
    /\ next_org_id <= MaxOrgs
    /\ Len(memberships) < MaxMembers
    /\ IF user_tiers[u] # "enterprise"
       THEN /\ Reply("create_organization", u, <<>>, 403)
            /\ UNCHANGED <<memberships, next_org_id>>
       ELSE /\ memberships' = Append(memberships,
                 [user_id |-> u, org_id |-> next_org_id, role |-> "admin",
                  is_active |-> TRUE])
            /\ next_org_id' = next_org_id + 1
            /\ Reply("create_organization", u, <<>>, 200)
    /\ UNCHANGED <<app, apiVars, engineVars, analyses, aggregated, module_results,
                   acquisition, docVars, advisorVars, user_tiers, decisions>>

\* POST /enterprise/org/seats; target 0 is an email no user has
add_seat(u, target, role) ==
    /\ app = "enterprise"
    /\ Len(memberships) < MaxMembers
    /\ LET m == _require_role(u, {"admin"})
           org == memberships[m.id].org_id
           code == IF m.code # 0 THEN m.code
                   ELSE IF target \notin Users THEN 404
                   ELSE IF \E id \in DOMAIN memberships :
                             /\ memberships[id].user_id = target
                             /\ memberships[id].org_id = org
                        THEN 400
                   ELSE 200
       IN /\ Reply("add_seat", u, <<target>>, code)
          /\ IF code = 200
             THEN /\ memberships' = Append(memberships,
                       [user_id |-> target, org_id |-> org,
                        role |-> IF role \in EnterpriseRole THEN role ELSE "reader",
                        is_active |-> TRUE])
                  /\ user_tiers' = [user_tiers EXCEPT ![target] = "enterprise"]
             ELSE UNCHANGED <<memberships, user_tiers>>
    /\ UNCHANGED <<app, apiVars, engineVars, analyses, aggregated, module_results,
                   acquisition, docVars, advisorVars, next_org_id, decisions>>

\* the checks update_seat and remove_seat share: the admin gate, then the
\* membership looked up by id within the admin's organization
SeatChecks(u, membership_id) ==
    LET m == _require_role(u, {"admin"}) IN
    IF m.code # 0 THEN m.code
    ELSE IF ~(/\ membership_id \in DOMAIN memberships
              /\ memberships[membership_id].org_id = memberships[m.id].org_id)
         THEN 404
    ELSE 200

\* PATCH /enterprise/org/seats/{membership_id}; EnterpriseRole(request.role)
\* raises ValueError (a 500) on an unknown role
update_seat(u, membership_id, role) ==
    /\ app = "enterprise"
    /\ LET chk == SeatChecks(u, membership_id)
           code == IF chk = 200 /\ role \notin EnterpriseRole THEN 500 ELSE chk
       IN /\ Reply("update_seat", u, <<membership_id>>, code)
          /\ memberships' = IF code = 200
                            THEN [memberships EXCEPT ![membership_id].role = role]
                            ELSE memberships
    /\ UNCHANGED <<app, apiVars, engineVars, analyses, aggregated, module_results,
                   acquisition, docVars, advisorVars, user_tiers, next_org_id, decisions>>

\* DELETE /enterprise/org/seats/{membership_id}
remove_seat(u, membership_id) ==
    /\ app = "enterprise"
    /\ LET code == SeatChecks(u, membership_id) IN
       /\ Reply("remove_seat", u, <<membership_id>>, code)
       /\ memberships' = IF code = 200
                         THEN [memberships EXCEPT ![membership_id].is_active = FALSE]
                         ELSE memberships
    /\ UNCHANGED <<app, apiVars, engineVars, analyses, aggregated, module_results,
                   acquisition, docVars, advisorVars, user_tiers, next_org_id, decisions>>

\* ------------------------------------------------ enterprise: decision workflow
\* select(ManuscriptDecision).where(manuscript_id ==, org_id ==)
DecisionRow(rows, ms, org) ==
    {id \in DOMAIN rows : rows[id].manuscript_id = ms /\ rows[id].org_id = org}

\* ManuscriptDecision(manuscript_id, org_id): stage and outcome take their defaults
NewDecision(ms, org) ==
    [manuscript_id |-> ms, org_id |-> org, stage |-> "unreviewed",
     outcome |-> "pending"]

\* manuscript_id is unique: the insert of a second row for a manuscript fails
\* with an IntegrityError
Duplicate(rows, ms, org) ==
    DecisionRow(rows, ms, org) = {} /\ \E id \in DOMAIN rows : rows[id].manuscript_id = ms

\* advance_workflow, "Role-gated advancement": the roles allowed at each stage
AdvanceRoles(stage) ==
    CASE stage = "unreviewed" -> {"reader", "editor", "director", "admin"}
      [] stage = "reader_reviewed" -> {"editor", "director", "admin"}
      [] stage = "editor_recommended" -> {"director", "admin"}
      [] OTHER -> {}

NextStage(stage) ==
    DecisionStage[(CHOOSE n \in 1..3 : DecisionStage[n] = stage) + 1]

\* POST /enterprise/workflow/advance
advance_workflow(u, ms, outcome) ==
    /\ app = "enterprise"
    /\ LET m == _require_role(u, EnterpriseRole)
           org == memberships[m.id].org_id
           role == memberships[m.id].role
           found == DecisionRow(decisions, ms, org)
           rows == IF found = {} THEN Append(decisions, NewDecision(ms, org))
                   ELSE decisions
           id == CHOOSE d \in DecisionRow(rows, ms, org) : TRUE
           stage == rows[id].stage
           final == stage = "editor_recommended"
           code == IF m.code # 0 THEN m.code
                   ELSE IF Duplicate(decisions, ms, org) THEN 500
                   ELSE IF stage = "director_decision" THEN 400
                   ELSE IF role \notin AdvanceRoles(stage) THEN 403
                   ELSE IF final /\ outcome # "" /\ outcome \notin DecisionOutcome
                        THEN 500
                   ELSE 200
       IN /\ Reply("advance_workflow", u, <<ms>>, code)
          /\ decisions' =
               IF code # 200 THEN decisions
               ELSE [rows EXCEPT
                       ![id].stage = NextStage(stage),
                       ![id].outcome = IF final /\ outcome # "" THEN outcome ELSE @]
    /\ UNCHANGED <<app, apiVars, engineVars, analyses, aggregated, module_results,
                   acquisition, docVars, advisorVars, user_tiers, memberships, next_org_id>>

\* batch_pass, the loop: get or create the decision of each manuscript, then set
\* it to pass at the final stage
RECURSIVE PassAll(_, _, _)
PassAll(rows, ids, org) ==
    IF ids = <<>> THEN rows
    ELSE LET found == DecisionRow(rows, ids[1], org)
             with == IF found = {} THEN Append(rows, NewDecision(ids[1], org))
                     ELSE rows
             id == CHOOSE d \in DecisionRow(with, ids[1], org) : TRUE
         IN PassAll([with EXCEPT ![id].outcome = "pass",
                                 ![id].stage = "director_decision"],
                    Tail(ids), org)

\* POST /enterprise/batch/pass
batch_pass(u, ids) ==
    /\ app = "enterprise"
    /\ LET m == _require_role(u, {"editor", "director", "admin"})
           org == memberships[m.id].org_id
           code == IF m.code # 0 THEN m.code
                   ELSE IF \E n \in DOMAIN ids : Duplicate(decisions, ids[n], org)
                        THEN 500
                   ELSE 200
       IN /\ Reply("batch_pass", u, ids, code)
          /\ decisions' = IF code = 200 THEN PassAll(decisions, ids, org)
                          ELSE decisions
    /\ UNCHANGED <<app, apiVars, engineVars, analyses, aggregated, module_results,
                   acquisition, docVars, advisorVars, user_tiers, memberships, next_org_id>>

\* ------------------------------------------------------------ advisor routes
\* Manuscript.owner_id: manuscript 1 is user 2's, manuscript 2 is user 3's
ManuscriptOwner == [m \in MsIds |-> m + 1]

\* POST /advisor/redeem up to its first query: the code, unused, of purpose
\* advisor_student; code 0 is a string no invitation has
redeem_invite_code(u, c) ==
    /\ app = "advisor"
    /\ Len(redeems) < MaxRedeems
    /\ LET found == c \in DOMAIN invitations /\ ~invitations[c].is_used IN
       redeems' = Append(redeems,
          [user |-> u, invitation |-> c,
           pc |-> IF found THEN "check_linked" ELSE "done",
           code |-> IF found THEN 0 ELSE 404])
    /\ UNCHANGED <<app, apiVars, engineVars, analyses, aggregated, module_results,
                   acquisition, docVars, orgVars, invitations, assignments,
                   annotations, advisor_reply>>

\* select(AdvisorAssignment).where(advisor_user_id ==, student_user_id ==)
Linked(advisor, student) ==
    \E id \in DOMAIN assignments :
        /\ assignments[id].advisor_user_id = advisor
        /\ assignments[id].student_user_id = student

\* redeem_invite_code, "Check if already linked"
RedeemCheckLinked(i) ==
    /\ app = "advisor"
    /\ i \in DOMAIN redeems /\ redeems[i].pc = "check_linked"
    /\ LET linked == Linked(invitations[redeems[i].invitation].creator_id,
                            redeems[i].user)
       IN redeems' = [redeems EXCEPT
             ![i].pc = IF linked THEN "done" ELSE "commit",
             ![i].code = IF linked THEN 400 ELSE 0]
    /\ UNCHANGED <<app, apiVars, engineVars, analyses, aggregated, module_results,
                   acquisition, docVars, orgVars, invitations, assignments,
                   annotations, advisor_reply>>

\* invitation.is_used = True; invitation.used_by_id = current_user.id
MarkUsed(row, u) == [row EXCEPT !.is_used = TRUE, !.used_by_id = u]

\* redeem_invite_code from "Create assignment" to the commit that follows the
\* handler: the insert fails on uq_advisor_student when the pair is there
RedeemCommit(i) ==
    /\ app = "advisor"
    /\ i \in DOMAIN redeems /\ redeems[i].pc = "commit"
    /\ LET c == redeems[i].invitation
           u == redeems[i].user
           advisor == invitations[c].creator_id
       IN IF Linked(advisor, u)
          THEN /\ redeems' = [redeems EXCEPT ![i].pc = "done", ![i].code = 500]
               /\ UNCHANGED <<invitations, assignments>>
          ELSE /\ assignments' = Append(assignments,
                    [advisor_user_id |-> advisor, student_user_id |-> u])
               /\ invitations' = [invitations EXCEPT ![c] = MarkUsed(@, u)]
               /\ redeems' = [redeems EXCEPT ![i].pc = "done", ![i].code = 200]
    /\ UNCHANGED <<app, apiVars, engineVars, analyses, aggregated, module_results,
                   acquisition, docVars, orgVars, annotations, advisor_reply>>

\* POST /advisor/annotations
create_advisor_annotation(u, ms) ==
    /\ app = "advisor"
    /\ Len(annotations) < MaxAnnotations
    /\ user_tiers[u] = "advisor"
    /\ ms \in MsIds
    /\ ManuscriptOwner[ms] = u \/ Linked(u, ManuscriptOwner[ms])
    /\ annotations' = Append(annotations, [manuscript_id |-> ms, user_id |-> u])
    /\ UNCHANGED <<app, apiVars, engineVars, analyses, aggregated, module_results,
                   acquisition, docVars, orgVars, invitations, assignments,
                   redeems, advisor_reply>>

ListAccessOwnerOrAdvisor(u, ms) ==
    ManuscriptOwner[ms] = u \/ Linked(u, ManuscriptOwner[ms])

\* list_advisor_annotations, "Verify access": the owner, the owner's advisor, or
\* a caller who is the student of some advisor
ListAccess(u, ms) ==
    \/ ManuscriptOwner[ms] = u
    \/ Linked(u, ManuscriptOwner[ms])
    \/ \E id \in DOMAIN assignments : assignments[id].student_user_id = u

\* GET /advisor/annotations/{manuscript_id}; the last query raises
\* MultipleResultsFound (a 500) for a student of two advisors
list_advisor_annotations(u, ms) ==
    /\ app = "advisor"
    /\ LET students == {id \in DOMAIN assignments :
                           assignments[id].student_user_id = u}
           code == IF user_tiers[u] \notin {"advisor", "academic"} THEN 403
                   ELSE IF ms \notin MsIds THEN 404
                   ELSE IF ManuscriptOwner[ms] = u \/ Linked(u, ManuscriptOwner[ms])
                        THEN 200
                   ELSE IF Cardinality(students) > 1 THEN 500
                   ELSE IF ListAccess(u, ms) THEN 200
                   ELSE 403
       IN advisor_reply' =
            <<[user |-> u, manuscript_id |-> ms, code |-> code,
               data |-> IF code = 200
                        THEN {id \in DOMAIN annotations :
                                 annotations[id].manuscript_id = ms}
                        ELSE {}]>>
    /\ UNCHANGED <<app, apiVars, engineVars, analyses, aggregated, module_results,
                   acquisition, docVars, orgVars, invitations, assignments,
                   annotations, redeems>>

\* ------------------------------------------------------------ specifications
ApiInit ==
    /\ tier \in UserTier
    /\ \E raw \in {"", "text"} :
         manuscripts = [m \in MsIds |->
            [exists |-> TRUE, owner |-> IF m = 1 THEN Caller ELSE "other",
             raw_text |-> raw]]
    /\ analysis_results = <<>>
    /\ next_id = 1
    /\ requests = <<>>

\* the api's tables when the behaviour is about another application
ApiIdle ==
    /\ tier = "free"
    /\ manuscripts = [m \in MsIds |->
            [exists |-> FALSE, owner |-> "other", raw_text |-> ""]]
    /\ analysis_results = <<>>
    /\ next_id = 1
    /\ requests = <<>>

\* the engine after an upload: the text is extracted (or the file was empty)
EngineInit ==
    /\ \E extracted \in {"", "text"} :
         manuscript = [exists |-> TRUE, status |-> "PENDING", progress_percent |-> 0,
                       extracted_text |-> extracted, error_message |-> ""]
    /\ results = <<>>
    /\ edit_queue = <<>>
    /\ next_result_id = 1
    /\ next_item_id = 1
    /\ analyze = <<>>
    /\ patched = <<>>

EngineIdle ==
    /\ manuscript = [exists |-> FALSE, status |-> "PENDING", progress_percent |-> 0,
                     extracted_text |-> "", error_message |-> ""]
    /\ results = <<>>
    /\ edit_queue = <<>>
    /\ next_result_id = 1
    /\ next_item_id = 1
    /\ analyze = <<>>
    /\ patched = <<>>

ApiNext ==
    \/ \E mid \in MsIds, name \in RequestTypes : RunAnalysis(mid, name)
    \/ \E i \in 1..MaxRuns : CallGateway(i)
    \/ \E i \in 1..MaxRuns, o \in GatewayOutcomes, c \in BOOLEAN : GatewayReturn(i, o, c)
    \/ \E i \in 1..MaxRuns, c \in BOOLEAN : ComputeLocal(i, c)
    \/ \E mid \in MsIds : DeleteManuscript(mid)
    \/ \E t \in UserTier : UpgradeTier(t)

\* the engine with one analyze request at a time, and the reader's decisions on
\* the items of the edit queue
EngineNext ==
    \/ \E mid \in MsIds, modules \in ModuleLists : Idle /\ AnalyzeManuscript(mid, modules)
    \/ \E i \in 1..MaxAnalyze : MarkAnalyzing(i)
    \/ \E i \in 1..MaxAnalyze, r \in BOOLEAN : FullDelete(i, r)
    \/ \E i \in 1..MaxAnalyze : FullCommit(i)
    \/ \E i \in 1..MaxAnalyze, f \in FindingLists, r \in BOOLEAN : RevDelete(i, f, r)
    \/ \E i \in 1..MaxAnalyze : EqDelete(i)
    \/ \E i \in 1..MaxAnalyze : FinalCommit(i)
    \/ \E i \in 1..MaxAnalyze, r \in BOOLEAN : SingleDelete(i, r)
    \/ \E i \in 1..MaxAnalyze : SingleCommit(i)
    \/ \E i \in 1..MaxAnalyze : ModulesFinish(i)
    \/ \E id \in 1..(2 * MaxAnalyze), s \in EditItemStatus :
          ItemLookup(1, id) /\ edit_queue[id].status # s
                            /\ UpdateEditQueueItem(1, id, s)

InitApi == app = "api" /\ ApiInit /\ EngineIdle /\ FnIdle
InitEngine == app = "engine" /\ ApiIdle /\ EngineInit /\ FnIdle

Init == InitApi \/ InitEngine
Next == ApiNext \/ EngineNext

\* either application
Spec == Init /\ [][Next]_vars
\* the api alone
SpecApi == InitApi /\ [][ApiNext]_vars
\* the engine alone
SpecEngine == InitEngine /\ [][EngineNext]_vars

InitAggregate ==
    /\ DocIdle
    /\ TenantIdle
    /\ app = "aggregate"
    /\ ApiIdle /\ EngineIdle
    /\ analyses \in AnalysesUpTo(MaxAnalyses)
    /\ aggregated = <<>>
    /\ module_results = [c \in Components |-> <<>>]
    /\ acquisition = <<>>

InitScore ==
    /\ DocIdle
    /\ TenantIdle
    /\ app = "score"
    /\ ApiIdle /\ EngineIdle
    /\ analyses = <<>>
    /\ aggregated = <<>>
    /\ module_results \in [Components -> ScoreValues]
    /\ acquisition = <<>>

\* calls of aggregate_edit_queue on every list of sample analyses
SpecAggregate == InitAggregate /\ [][Aggregate]_vars
\* calls of compute_acquisition_score on every combination of component values
SpecScore == InitScore /\ [][ComputeAcquisitionScore]_vars

\* ------------------------------------------------------------------ claims
Terminal == {COMPLETED, FAILED}
LastOf(s) == s[Len(s)]
TerminalCount(h) == Cardinality({n \in 1..Len(h) : h[n] \in Terminal})

\* C1: every row run_analysis creates reaches a terminal status exactly once:
\* while its request runs it is not terminal, when the request has ended it is
\* completed or failed with one terminal entry in its history, and no step
\* changes a row whose status is terminal.
C1_TerminalExactlyOnce ==
    [][ /\ \A i \in DOMAIN requests' :
            LET req == requests'[i] IN
            (req.row \in DOMAIN analysis_results') =>
               LET a == analysis_results'[req.row] IN
               /\ req.pc \in {"running", "awaiting"} =>
                     a.status \notin Terminal /\ TerminalCount(a.history) = 0
               /\ req.pc = "done" =>
                     /\ a.status \in Terminal
                     /\ TerminalCount(a.history) = 1
                     /\ LastOf(a.history) = a.status
        /\ \A id \in DOMAIN analysis_results \cap DOMAIN analysis_results' :
            analysis_results[id].status \in Terminal =>
               analysis_results'[id] = analysis_results[id] ]_vars

\* C1 witness: a request has ended with its row failed and a later request has
\* been made
C1_Witness ==
    /\ app = "api"
    /\ Len(requests) = 2
    /\ requests[1].pc = "done"
    /\ requests[1].row \in DOMAIN analysis_results
    /\ analysis_results[requests[1].row].status = FAILED
    /\ requests[2].pc = "done"

\* C2 as stated: a request during which an exception was raised ends with its
\* row failed, the error text stored, a 500 response and at most one gateway
\* call.  The originality assessment of acquisition_score breaks it.
C2_ExceptionFailsRequest ==
    \A i \in DOMAIN requests :
        (requests[i].pc = "done" /\ requests[i].raised
            /\ requests[i].row \in DOMAIN analysis_results) =>
           /\ analysis_results[requests[i].row].status = FAILED
           /\ analysis_results[requests[i].row].results_json = "error"
           /\ requests[i].code = 500
           /\ requests[i].calls <= 1

\* C3 as stated: every row's history is pending, then running, then one of
\* completed or failed.
C3_PendingFirst ==
    \A id \in DOMAIN analysis_results :
        analysis_results[id].history \in
            {<<PENDING>>, <<PENDING, RUNNING>>, <<PENDING, RUNNING, COMPLETED>>,
             <<PENDING, RUNNING, FAILED>>}

\* C3 amended: every row is first persisted as running and its history is
\* running, then at most one of completed or failed; it is never pending.
C3_RunningFirst ==
    \A id \in DOMAIN analysis_results :
        /\ analysis_results[id].history \in
              {<<RUNNING>>, <<RUNNING, COMPLETED>>, <<RUNNING, FAILED>>}
        /\ LastOf(analysis_results[id].history) = analysis_results[id].status

\* C3 witness: a row that went from running to completed
C3_Witness ==
    \E id \in DOMAIN analysis_results :
        analysis_results[id].history = <<RUNNING, COMPLETED>>

ApiRowsRemoved == DOMAIN analysis_results \ DOMAIN analysis_results'
EngineRowsRemoved == DOMAIN results \ DOMAIN results'

\* C4 as stated: a row is removed only in the step that deletes its manuscript,
\* in either application.
C4_RemovedOnlyByCascade ==
    [][ /\ \A id \in ApiRowsRemoved :
            LET mid == analysis_results[id].manuscript_id IN
            manuscripts[mid].exists /\ ~manuscripts'[mid].exists
        /\ EngineRowsRemoved # {} => (manuscript.exists /\ ~manuscript'.exists) ]_vars

\* C4 amended: run_analysis removes no row and an api row goes only with its
\* manuscript; run_full_analysis and run_single_module remove a module's row
\* only in the commit that inserts the new row of the same module.
C4_RemovedByCascadeOrReplaced ==
    [][ /\ \A id \in ApiRowsRemoved :
            LET mid == analysis_results[id].manuscript_id IN
            /\ manuscripts[mid].exists /\ ~manuscripts'[mid].exists
            /\ requests' = requests
        /\ \A id \in EngineRowsRemoved :
            \E new \in DOMAIN results' \ DOMAIN results :
                results'[new].module = results[id].module ]_vars

\* C4 witness: the engine has removed a row and the row that replaced it is stored
C4_Witness ==
    /\ app = "engine"
    /\ \E old \in 1..(next_result_id - 1) :
          /\ old \notin DOMAIN results
          /\ \E new \in DOMAIN results : new > old

NewRequest == Len(requests') = Len(requests) + 1
NewAnalyze == Len(analyze') = Len(analyze) + 1

\* C5: a request that names a manuscript the caller does not own, a module the
\* caller's tier is not listed for or an unknown module is rejected with a 4xx
\* code, and the step that rejects a request leaves every AnalysisResult row,
\* every edit queue row and every manuscript field as it was; this holds for
\* run_analysis and for analyze_manuscript.
C5_RejectionChangesNothing ==
    [][ /\ NewRequest =>
            LET req == LastOf(requests')
                invalid ==
                    \/ ~manuscripts[req.manuscript_id].exists
                    \/ manuscripts[req.manuscript_id].owner # Caller
                    \/ tier \notin TIER_ACCESS(req.analysis_type)
                    \/ req.analysis_type \notin AnalysisType
            IN /\ invalid <=> req.pc = "rejected"
               /\ req.pc = "rejected" =>
                     /\ req.code \in 400..499
                     /\ analysis_results' = analysis_results
                     /\ manuscripts' = manuscripts
        /\ NewAnalyze =>
            LET req == LastOf(analyze')
                invalid ==
                    \/ req.manuscript_id # 1
                    \/ ~manuscript.exists
                    \/ \E n \in DOMAIN req.modules : req.modules[n] \notin AnalysisModule
            IN /\ invalid => req.pc = "rejected"
               /\ req.pc = "rejected" =>
                     /\ req.code \in 400..499
                     /\ results' = results
                     /\ edit_queue' = edit_queue
                     /\ manuscript' = manuscript ]_vars

\* C5 witness: run_analysis has rejected a request for a tier reason while a
\* row of an earlier request is stored
C5_Witness ==
    /\ app = "api"
    /\ Len(requests) = 2
    /\ requests[2].pc = "rejected"
    /\ requests[2].code = 403
    /\ requests[1].row \in DOMAIN analysis_results

\* C6: run_analysis creates a row only when the caller's tier, as it is when the
\* request is made, is listed for the module: a free user gets a row only for
\* xray, intelligence_engine and prose_refinery, acquisition_score only an
\* enterprise user, and any other pair on a manuscript of the caller gets 403
\* and no row.
C6_TierGate ==
    [][ NewRequest =>
          LET req == LastOf(requests')
              name == req.analysis_type
              created == DOMAIN analysis_results' \ DOMAIN analysis_results
          IN /\ (req.row # 0) <=> (created = {req.row})
             /\ req.row = 0 => created = {}
             /\ req.row # 0 =>
                   /\ tier \in TIER_ACCESS(name)
                   /\ tier = "free" =>
                         name \in {"xray", "intelligence_engine", "prose_refinery"}
                   /\ name = "acquisition_score" => tier = "enterprise"
                   /\ analysis_results'[req.row].analysis_type = name
             /\ ( /\ manuscripts[req.manuscript_id].exists
                  /\ manuscripts[req.manuscript_id].owner = Caller
                  /\ tier \notin TIER_ACCESS(name) ) =>
                   req.code = 403 /\ req.row = 0 ]_vars

\* C6 witness: after an upgrade in between, the same manuscript has one request
\* refused with 403 and one that created an acquisition_score row
C6_Witness ==
    /\ Len(requests) = 2
    /\ requests[1].analysis_type = "acquisition_score"
    /\ requests[1].code = 403
    /\ requests[2].analysis_type = "acquisition_score"
    /\ requests[2].row \in DOMAIN analysis_results
    /\ tier = "enterprise"

\* C7: the commit that ends run_full_analysis leaves as the manuscript's edit
\* queue rows exactly the items of the revision data it generated, in order,
\* each PENDING, and none of the rows stored before it.
C7_EditQueueRebuilt ==
    [][ \A i \in DOMAIN analyze :
          (analyze[i].pc = "final_commit" /\ analyze'[i].pc = "done"
              /\ analyze'[i].code = 200) =>
             LET queue == analyze[i].queue
                 ids == DOMAIN edit_queue'
             IN /\ ids \cap DOMAIN edit_queue = {}
                /\ ids = next_item_id .. (next_item_id + Len(queue) - 1)
                /\ \A n \in 1..Len(queue) :
                     LET row == edit_queue'[next_item_id + n - 1] IN
                     /\ row.status = "PENDING"
                     /\ row.severity = queue[n].severity
                     /\ row.finding = queue[n].finding ]_vars

\* C7 witness: a full analysis has completed over a queue that held an accepted
\* item, and its own items are stored
C7_Witness ==
    \E i \in DOMAIN analyze :
        /\ analyze[i].modules = <<>>
        /\ analyze[i].pc = "done"
        /\ analyze[i].code = 200
        /\ "ACCEPTED" \in analyze[i].replaced
        /\ Len(analyze[i].queue) = 2
        /\ Cardinality(DOMAIN edit_queue) = 2

\* the position a severity has in the order high, medium, low; any other
\* string comes after them
OrderOf(severity) ==
    CASE severity = "high" -> 1
      [] severity = "medium" -> 2
      [] severity = "low" -> 3
      [] OTHER -> 4

FourInconsistencies ==
    [analysis_type |-> "character_arc",
     results |-> [NoFindings EXCEPT
                    !.inconsistencies = <<"low", "high", "medium", "high">>]]

\* C8: the items aggregate_edit_queue returns are the extracted items ordered
\* high, medium, low, and two items of one severity stand in the order of
\* their extraction; findings extracted as low, high, medium, high come out as
\* high, high, medium, low with the second finding before the fourth.
C8_StableSeveritySort ==
    aggregated # <<>> =>
       LET out == aggregated[1].items
           extracted == Extracted(analyses)
           Position(n) == CHOOSE k \in 1..Len(extracted) : extracted[k] = out[n]
       IN /\ Len(out) = Len(extracted)
          /\ {out[n] : n \in 1..Len(out)} = {extracted[n] : n \in 1..Len(extracted)}
          /\ \A m, n \in 1..Len(out) :
                m < n =>
                   /\ OrderOf(out[m].severity) <= OrderOf(out[n].severity)
                   /\ out[m].severity = out[n].severity => Position(m) < Position(n)
          /\ analyses = <<FourInconsistencies>> =>
                /\ [n \in 1..4 |-> out[n].severity] = <<"high", "high", "medium", "low">>
                /\ [n \in 1..4 |-> Position(n)] = <<2, 4, 3, 1>>

\* C8 witness: the call on findings extracted as low, high, medium, high has
\* returned four items
C8_Witness ==
    /\ analyses = <<FourInconsistencies>>
    /\ aggregated # <<>>
    /\ Len(aggregated[1].items) = 4

\* C9 as stated: the item at position n of the returned list has id n.  The
\* ids are given at extraction and the sort moves the items, so it fails as
\* soon as the sort moves one.
C9_IdsFollowOutputOrder ==
    aggregated # <<>> =>
       \A n \in 1..Len(aggregated[1].items) : aggregated[1].items[n].id = n

AllComponents(v) == \A c \in Components : module_results[c] = <<v>>

\* C10: with the default weights the returned acquisition_score is an integer
\* in 0..100 within one half of the weighted sum .25, .20, .20, .20, .15 of the
\* five components clamped to [0, 100]; all components 0 give 0 and all
\* components 100 give 100.
C10_WeightedRoundedClamped ==
    acquisition # <<>> =>
       LET given(c) == IF module_results[c] = <<>> THEN 50 ELSE module_results[c][1]
           hundredths == 25 * given("structural_integrity")
                         + 20 * given("voice_distinctiveness")
                         + 20 * given("pacing_quality")
                         + 20 * given("prose_craft")
                         + 15 * given("narrative_originality")
           clamped == IF hundredths < 0 THEN 0
                      ELSE IF hundredths > 10000 THEN 10000 ELSE hundredths
           score == acquisition[1].acquisition_score
       IN /\ score \in 0..100
          /\ 100 * score - clamped \in -50..50
          /\ AllComponents(0) => score = 0
          /\ AllComponents(100) => score = 100

\* C10 witness: the call with all five components 100 has returned 100
C10_Witness ==
    /\ AllComponents(100)
    /\ acquisition # <<>>
    /\ acquisition[1].acquisition_score = 100

\* ------------------------------------------------------------ C11: tier label
\* component values around and beyond the range of a score
UniformScores == -5 .. 105

InitTier ==
    /\ DocIdle
    /\ TenantIdle
    /\ app = "tier"
    /\ ApiIdle /\ EngineIdle
    /\ analyses = <<>>
    /\ aggregated = <<>>
    /\ \E v \in UniformScores : module_results = [c \in Components |-> <<v>>]
    /\ acquisition = <<>>

\* calls of compute_acquisition_score with all five components equal, so that
\* every composite 0..100 is returned
SpecTier == InitTier /\ [][ComputeAcquisitionScore]_vars

\* C11: the tier returned with a composite c is Strong Consider iff c >= 80,
\* Consider iff 60 <= c < 80, Maybe iff 40 <= c < 60 and Pass iff c < 40.
C11_TierBands ==
    acquisition # <<>> =>
       LET c == acquisition[1].acquisition_score
           t == acquisition[1].tier
       IN /\ c \in 0..100
          /\ (t = "Strong Consider") <=> (c >= 80)
          /\ (t = "Consider") <=> (60 <= c /\ c < 80)
          /\ (t = "Maybe") <=> (40 <= c /\ c < 60)
          /\ (t = "Pass") <=> (c < 40)

\* C11 witness: the composite 80 has been returned, labelled Strong Consider
C11_Witness ==
    /\ acquisition # <<>>
    /\ acquisition[1].acquisition_score = 80
    /\ acquisition[1].tier = "Strong Consider"

\* ------------------------------------------------------------ detect_chapters
InitChapters ==
    /\ app = "chapters"
    /\ ApiIdle /\ EngineIdle
    /\ analyses = <<>>
    /\ aggregated = <<>>
    /\ module_results = [c \in Components |-> <<>>]
    /\ acquisition = <<>>
    /\ text \in Texts
    /\ detected = <<>>
    /\ raw_text = <<>> /\ prose_stats = <<>>
    /\ TenantIdle

\* calls of detect_chapters on every text of up to MaxLines lines
SpecChapters == InitChapters /\ [][DetectChapters]_vars

Chapters == detected[1]

\* the text of all chapters, one after the other
RECURSIVE Flat(_)
Flat(chs) == IF chs = <<>> THEN <<>> ELSE chs[1].text \o Flat(Tail(chs))

\* the lines of a text that no strategy can take for a heading
Prose(toks) == SelectSeq(toks, LAMBDA tok : tok = "PL")

\* the 'Chapter N' heading lines of a text, in order
Headings(toks) == SelectSeq(toks, LAMBDA tok : tok \in {"H1", "HB"})

\* C12 as stated: the chapters have strictly increasing start_offset, do not
\* overlap, and no line of the input that is not a heading is missing from or
\* repeated in their texts.  Text before the first heading breaks it.
C12_ChaptersPartitionText ==
    detected # <<>> =>
       /\ \A n \in 1..(Len(Chapters) - 1) :
             /\ Chapters[n].start_offset < Chapters[n + 1].start_offset
             /\ Chapters[n].start_offset + CharLen(Chapters[n].text)
                   <= Chapters[n + 1].start_offset
       /\ Prose(Flat(Chapters)) = Prose(text)

\* C13 as stated: a text with k >= 2 'Chapter N' heading lines gives exactly k
\* chapters numbered 1..k whose titles are those lines in order.  A heading
\* that ends with its number breaks it.
C13_ChapterHeadings ==
    (detected # <<>> /\ Len(Headings(text)) >= 2) =>
       /\ Len(Chapters) = Len(Headings(text))
       /\ \A n \in 1..Len(Chapters) :
             /\ Chapters[n].number = n
             /\ Chapters[n].title = <<Headings(text)[n]>>

\* the boundaries of strategy (3) as they are described: a capitalized line with
\* three or more empty lines before it.  A run of m newlines that starts the
\* text is m empty lines, a run after a line m - 1.
ThreeBlankLines(toks) ==
    SelectSeq(blank_pattern(toks, 1),
              LAMBDA m : (m.first - m.start) - (IF m.start = 1 THEN 0 ELSE 1) >= 3)

\* C14 as stated: the chapters are those of the first of (1) 'Chapter N'
\* headings, (2) ALL-CAPS lines, (3) capitalized lines after three or more
\* blank lines, that has at least two matches, and the fallback when none has.
\* Two blank lines are a boundary for the code, which breaks it.
C14_CascadeAsDescribed ==
    detected # <<>> =>
       LET starts(matches) ==
               [n \in 1..Len(matches) |->
                   CharLen(SubSeq(text, 1, matches[n].start - 1))]
           offsets == [n \in 1..Len(Chapters) |-> Chapters[n].start_offset]
       IN IF Len(chapter_pattern(text, 1)) >= 2
          THEN offsets = starts(chapter_pattern(text, 1))
          ELSE IF Len(CapsMatches(text)) >= 2
          THEN offsets = starts(CapsMatches(text))
          ELSE IF Len(ThreeBlankLines(text)) >= 2
          THEN offsets = starts(ThreeBlankLines(text))
          ELSE Chapters = FullManuscript(text)

\* C15: the returned list is never empty, and when no strategy has two
\* matches (a text without any heading or boundary, the empty text) it is the
\* one chapter 1, 'Full Manuscript', at offset 0, with the whole input as text.
C15_FallbackSingleChapter ==
    detected # <<>> =>
       LET whole == << [number |-> 1, title |-> <<"FULL">>, start_offset |-> 0,
                        text |-> text] >>
           no_match == /\ \A n \in 1..Len(text) : text[n] \in {"PC", "PL", "NL"}
                       /\ \A n \in 1..(Len(text) - 2) :
                             ~(text[n] = "NL" /\ text[n + 1] = "NL" /\ text[n + 2] = "NL")
       IN /\ Len(Chapters) >= 1
          /\ ( /\ Len(chapter_pattern(text, 1)) < 2
               /\ Len(CapsMatches(text)) < 2
               /\ Len(blank_pattern(text, 1)) < 2 ) => Chapters = whole
          /\ no_match => Chapters = whole
          /\ Len(Chapters) = 1 => Chapters = whole

\* C15 witness: a text with a single chapter heading between blank lines has
\* come back as one chapter
C15_Witness ==
    /\ text = <<"NL", "H1", "NL", "PL", "NL">>
    /\ detected # <<>>
    /\ Len(Chapters) = 1
    /\ Chapters[1].text = text

\* C16 as stated: a request whose gateway reply does not parse as JSON ends
\* with its row failed and a 500 response, whatever the module.  The
\* originality assessment of acquisition_score uses 50 instead.
C16_UnparsableReplyFails ==
    \A i \in DOMAIN requests :
        (requests[i].pc = "done" /\ requests[i].reply = "unparsable"
            /\ requests[i].row \in DOMAIN analysis_results) =>
           /\ analysis_results[requests[i].row].status = FAILED
           /\ requests[i].code = 500


\* ------------------------------------------------- C17: concurrent analyze runs
\* the analyze requests of the engine in flight together: analyze_manuscript is
\* a sync handler, served from a thread pool with a Session of its own per
\* request
EngineConcurrentNext ==
    \/ \E mid \in MsIds, modules \in ModuleLists : AnalyzeManuscript(mid, modules)
    \/ \E i \in 1..MaxAnalyze : MarkAnalyzing(i)
    \/ \E i \in 1..MaxAnalyze, r \in BOOLEAN : FullDelete(i, r)
    \/ \E i \in 1..MaxAnalyze : FullCommit(i)
    \/ \E i \in 1..MaxAnalyze, f \in FindingLists, r \in BOOLEAN : RevDelete(i, f, r)
    \/ \E i \in 1..MaxAnalyze : EqDelete(i)
    \/ \E i \in 1..MaxAnalyze : FinalCommit(i)
    \/ \E i \in 1..MaxAnalyze, r \in BOOLEAN : SingleDelete(i, r)
    \/ \E i \in 1..MaxAnalyze : SingleCommit(i)
    \/ \E i \in 1..MaxAnalyze : ModulesFinish(i)

SpecEngineConcurrent == InitEngine /\ [][EngineConcurrentNext]_vars

\* the modules a successful analyze request stores a row for
WrittenBy(req) ==
    IF req.modules = <<>> THEN AnalysisModule
    ELSE {req.modules[n] : n \in DOMAIN req.modules}

RowsOf(module) == {id \in DOMAIN results : results[id].module = module}

BothFinished ==
    /\ Len(analyze) = 2
    /\ \A i \in DOMAIN analyze : analyze[i].pc = "done" /\ analyze[i].code = 200

\* C17: once two analyze requests for the same manuscript have both finished,
\* whatever the interleaving of their delete, insert and commit steps, every
\* module either of them ran has exactly one AnalysisResult row (the last write
\* wins) and the EditQueueItem rows all come from one of the two runs.
C17_LastWriteWins ==
    BothFinished =>
        /\ \A i \in DOMAIN analyze : \A m \in WrittenBy(analyze[i]) :
              Cardinality(RowsOf(m)) = 1
        /\ Cardinality({edit_queue[id].run : id \in DOMAIN edit_queue}) <= 1

\* ------------------------------------------- C18: one stored result per module
\* GET /manuscripts/{id}/analysis/{module}: the newest row of the module, or 404
get_analysis_result(module) ==
    IF ~manuscript.exists THEN [code |-> 404, row |-> 0]
    ELSE IF module \notin AnalysisModule THEN [code |-> 400, row |-> 0]
    ELSE IF RowsOf(module) = {} THEN [code |-> 404, row |-> 0]
    ELSE [code |-> 200,
          row |-> CHOOSE id \in RowsOf(module) : \A o \in RowsOf(module) : o <= id]

FullRunSucceeded(i) ==
    /\ i \in DOMAIN analyze
    /\ analyze[i].modules = <<>>
    /\ analyze[i].pc = "done"
    /\ analyze[i].code = 200

\* C18: a successful full analysis answers with six completed modules, and from
\* then on, through every later sequential full or single-module run, each of
\* the six modules has exactly one stored AnalysisResult, which the per-module
\* endpoint returns.
C18_SixModulesOneRowEach ==
    \A i \in DOMAIN analyze :
        FullRunSucceeded(i) =>
           /\ Len(analyze[i].completed) = 6
           /\ {analyze[i].completed[n] : n \in 1..6} = AnalysisModule
           /\ \A m \in AnalysisModule :
                 /\ Cardinality(RowsOf(m)) = 1
                 /\ get_analysis_result(m).code = 200
                 /\ get_analysis_result(m).row \in RowsOf(m)

\* a full analysis succeeded and a later run, full or single, succeeded after it
C18_Witness ==
    /\ Len(analyze) = 2
    /\ FullRunSucceeded(1)
    /\ analyze[2].pc = "done" /\ analyze[2].code = 200

\* ------------------------------------------------ C19: update_edit_queue_item
\* one full analysis of the caller's manuscript, and PATCH requests of every kind
\* before, during and after it
PatchNext ==
    \/ analyze = <<>> /\ AnalyzeManuscript(1, <<>>)
    \/ \E i \in 1..MaxAnalyze : MarkAnalyzing(i)
    \/ \E i \in 1..MaxAnalyze : FullDelete(i, FALSE)
    \/ \E i \in 1..MaxAnalyze : FullCommit(i)
    \/ \E i \in 1..MaxAnalyze, f \in FindingLists : RevDelete(i, f, FALSE)
    \/ \E i \in 1..MaxAnalyze : EqDelete(i)
    \/ \E i \in 1..MaxAnalyze : FinalCommit(i)
    \/ \E mid \in MsIds, id \in 1..(2 * MaxAnalyze), s \in PatchStatuses :
          UpdateEditQueueItem(mid, id, s)

SpecPatch == InitEngine /\ [][PatchNext]_vars

\* a step of update_edit_queue_item: it answers, or an item changes while no
\* analyze request moves
PatchStep == patched' # patched \/ (edit_queue' # edit_queue /\ analyze' = analyze)

\* the item the request names is an item of a manuscript of the caller
OwnItem(p) ==
    /\ p.manuscript_id = 1 /\ manuscript.exists
    /\ p.item_id \in DOMAIN edit_queue

\* what a PATCH with a valid status on an item of the caller does, and that a
\* PATCH answered otherwise changes no item
PatchEffect(p) ==
    /\ UNCHANGED <<manuscript, results, next_result_id, next_item_id, analyze>>
    /\ (OwnItem(p) /\ p.status \in EditItemStatus) =>
          /\ p.code = 200
          /\ p.data = <<[id |-> p.item_id, status |-> p.status]>>
          /\ edit_queue' = [edit_queue EXCEPT ![p.item_id].status = p.status]
    /\ ~(OwnItem(p) /\ p.status \in EditItemStatus) =>
          /\ p.code # 200
          /\ edit_queue' = edit_queue

\* C19 as stated: a valid status sets that item's status and returns it, nothing
\* else changes; an invalid status is answered 400 and an item that is not one of
\* a manuscript of the caller 404, both without changing any item.
C19_PatchAsStated ==
    [][PatchStep =>
         LET p == patched'[1] IN
         /\ PatchEffect(p)
         /\ p.status \notin EditItemStatus => p.code = 400
         /\ ~OwnItem(p) => p.code = 404]_vars

\* C19, amended: the item is looked up before the status is read, so an invalid
\* status is answered 400 only when the item is one of a manuscript of the
\* caller; an item that is not is answered 404 whatever the status.
C19_PatchItemFirst ==
    [][PatchStep =>
         LET p == patched'[1] IN
         /\ PatchEffect(p)
         /\ (OwnItem(p) /\ p.status \notin EditItemStatus) => p.code = 400
         /\ ~OwnItem(p) => p.code = 404]_vars

\* an item was accepted while the queue holds another item, still pending
C19_Witness ==
    /\ patched # <<>>
    /\ patched[1].code = 200
    /\ patched[1].item_id \in DOMAIN edit_queue
    /\ edit_queue[patched[1].item_id].status = "ACCEPTED"
    /\ \E o \in DOMAIN edit_queue :
          o # patched[1].item_id /\ edit_queue[o].status = "PENDING"

\* ------------------------------------------------ C20: filter word counts
InitProse ==
    /\ app = "prose"
    /\ ApiIdle /\ EngineIdle
    /\ analyses = <<>>
    /\ aggregated = <<>>
    /\ module_results = [c \in Components |-> <<>>]
    /\ acquisition = <<>>
    /\ text = <<>> /\ detected = <<>>
    /\ raw_text \in RawTexts
    /\ prose_stats = <<>>
    /\ TenantIdle

\* calls of _compute_local_prose_stats on every text of up to MaxPieces pieces
SpecProse == InitProse /\ [][ComputeLocalProseStats]_vars

SameLetter(c, d) ==
    \/ c = d
    \/ \E n \in 1..26 : {c, d} = {UpperCase[n], LowerCase[n]}

\* the places of chars where fw stands as whole words, in any case: it starts
\* where a word starts and ends where a word ends
WholeWordOccurrences(chars, fw) ==
    {n \in 1..Len(chars) :
        /\ n + Len(fw) - 1 <= Len(chars)
        /\ \A k \in 1..Len(fw) : SameLetter(chars[n + k - 1], fw[k])
        /\ (n = 1 \/ ~WordChar(chars[n - 1]))
        /\ (n + Len(fw) - 1 = Len(chars) \/ ~WordChar(chars[n + Len(fw)]))}

Just == <<"j", "u", "s", "t">>

\* C20: for every filter word the reported count is the number of its whole-word
\* occurrences in the text, in any case; a word that does not occur has no entry;
\* total_filter_words is the sum of the reported counts; the example text gives
\* count 2 for "just".
C20_FilterWordCounts ==
    prose_stats # <<>> =>
        LET reported == prose_stats[1].filter_word_counts IN
        /\ \A k \in 1..Len(FILTER_WORDS) :
              LET occurrences ==
                      Cardinality(WholeWordOccurrences(raw_text, FILTER_WORDS[k]))
                  entries == {n \in 1..Len(reported) :
                                 reported[n].word = FILTER_WORDS[k]}
              IN IF occurrences = 0
                 THEN entries = {}
                 ELSE /\ Cardinality(entries) = 1
                      /\ \A n \in entries : reported[n].count = occurrences
        /\ \A n \in 1..Len(reported) :
              \E k \in 1..Len(FILTER_WORDS) : reported[n].word = FILTER_WORDS[k]
        /\ prose_stats[1].total_filter_words = SumCounts(reported)
        /\ raw_text = Example =>
              reported = <<[word |-> Just, count |-> 2]>>

\* the example text was counted: one entry, "just" twice
C20_Witness ==
    /\ raw_text = Example
    /\ prose_stats # <<>>
    /\ prose_stats[1].filter_word_counts = <<[word |-> Just, count |-> 2]>>
    /\ prose_stats[1].total_filter_words = 2

\* ------------------------------------------- C21: one analysis at a time
\* C21: an analyze request that arrives while another analyze request for the
\* manuscript is still running is rejected with 400 'Analysis already in
\* progress' and changes no stored data, whatever the interleaving.
C21_OneAnalysisAtATime ==
    [][(NewAnalyze /\ ~Idle /\ LastOf(analyze').manuscript_id = 1) =>
          /\ LastOf(analyze').code = 400
          /\ LastOf(analyze').detail = "in_progress"
          /\ UNCHANGED <<manuscript, results, edit_queue>>]_vars

\* ------------------------------------------- enterprise: the specifications
\* the seats of organizations: user 1 and user 2 are enterprise users, user 3
\* is registered on the free tier
InitOrg ==
    /\ app = "enterprise"
    /\ ApiIdle /\ EngineIdle
    /\ DocIdle
    /\ analyses = <<>>
    /\ aggregated = <<>>
    /\ module_results = [c \in Components |-> <<>>]
    /\ acquisition = <<>>
    /\ user_tiers = [u \in Users |-> IF u = 3 THEN "free" ELSE "enterprise"]
    /\ memberships = <<>>
    /\ next_org_id = 1
    /\ decisions = <<>>
    /\ tenant_reply = <<>>
    /\ AdvisorIdle

OrgNext ==
    \/ \E u \in Users : create_organization(u)
    \/ \E u \in Users, target \in Users \cup {0}, role \in RoleInputs :
          add_seat(u, target, role)
    \/ \E u \in Users, id \in 1..MaxMembers, role \in RoleInputs :
          update_seat(u, id, role)
    \/ \E u \in Users, id \in 1..MaxMembers : remove_seat(u, id)

SpecOrg == InitOrg /\ [][OrgNext]_vars

\* the decision workflow in an organization whose admin, user 1, has given
\* seats of some role to users 2 and 3
InitWorkflow ==
    /\ app = "enterprise"
    /\ ApiIdle /\ EngineIdle
    /\ DocIdle
    /\ analyses = <<>>
    /\ aggregated = <<>>
    /\ module_results = [c \in Components |-> <<>>]
    /\ acquisition = <<>>
    /\ user_tiers = [u \in Users |-> "enterprise"]
    /\ \E r2 \in EnterpriseRole, r3 \in EnterpriseRole :
         memberships =
            << [user_id |-> 1, org_id |-> 1, role |-> "admin", is_active |-> TRUE],
               [user_id |-> 2, org_id |-> 1, role |-> r2, is_active |-> TRUE],
               [user_id |-> 3, org_id |-> 1, role |-> r3, is_active |-> TRUE] >>
    /\ next_org_id = 2
    /\ decisions = <<>>
    /\ tenant_reply = <<>>
    /\ AdvisorIdle

WorkflowNext ==
    \/ \E u \in Users, ms \in MsIds, o \in OutcomeInputs : advance_workflow(u, ms, o)
    \/ \E u \in Users, ids \in BatchLists : batch_pass(u, ids)

SpecWorkflow == InitWorkflow /\ [][WorkflowNext]_vars

\* the stage of a manuscript's decision, 1 to 4; a manuscript without a record
\* is unreviewed
StageOf(rows, ms) ==
    IF \E id \in DOMAIN rows : rows[id].manuscript_id = ms
    THEN CHOOSE n \in 1..4 :
            \E id \in DOMAIN rows :
               rows[id].manuscript_id = ms /\ rows[id].stage = DecisionStage[n]
    ELSE 1

OutcomeOf(rows, ms) ==
    IF \E id \in DOMAIN rows : rows[id].manuscript_id = ms
    THEN (CHOOSE r \in {rows[id] : id \in DOMAIN rows} : r.manuscript_id = ms).outcome
    ELSE "pending"

\* the role of the caller of the request a step answers
CallerRole == memberships[_get_membership(tenant_reply'[1].user).id].role

\* C22: a decision's stage moves one stage forward per successful
\* advance_workflow call made with a role allowed for the step, and in no other
\* way; a 403 or a 400 leaves the records as they were, and at
\* director_decision advance_workflow answers 400.
C22_StageStepsForward ==
    [][(decisions' # decisions \/ tenant_reply' # tenant_reply) =>
         LET r == tenant_reply'[1] IN
         /\ \A ms \in MsIds :
               LET a == StageOf(decisions, ms)
                   b == StageOf(decisions', ms)
               IN /\ b = a \/ b = a + 1
                  /\ b = a + 1 =>
                        /\ r.op = "advance_workflow" /\ r.code = 200
                        /\ r.target = <<ms>>
                        /\ CallerRole \in AdvanceRoles(DecisionStage[a])
         /\ r.code \in {400, 403} => decisions' = decisions
         /\ (/\ r.op = "advance_workflow"
             /\ StageOf(decisions, r.target[1]) = 4) => r.code = 400]_vars

\* C23: a decision reaches director_decision, or gets an outcome other than
\* pending, only by a request of a member whose role is director or admin.
C23_FinalDecisionByDirector ==
    [][\A ms \in MsIds :
          (\/ StageOf(decisions', ms) = 4 /\ StageOf(decisions, ms) # 4
           \/ OutcomeOf(decisions', ms) # "pending"
                 /\ OutcomeOf(decisions, ms) = "pending")
             => CallerRole \in {"director", "admin"}]_vars

\* C28: every organization created so far has an active membership with role
\* admin, whatever seats were added, updated or removed.
C28_OrgKeepsAdmin ==
    \A org \in 1..(next_org_id - 1) :
        \E id \in DOMAIN memberships :
            /\ memberships[id].org_id = org
            /\ memberships[id].role = "admin"
            /\ memberships[id].is_active

\* C29: no user has two active memberships, so the lookup of _get_membership
\* finds no row or one.
C29_OneActiveMembership ==
    \A u \in Users :
        /\ Cardinality({id \in DOMAIN memberships :
                          memberships[id].user_id = u /\ memberships[id].is_active}) <= 1
        /\ _get_membership(u).code # 500

\* ------------------------------------------- C27: the status after a request
\* C27 as stated: once an analyze request for the manuscript has returned, with
\* success or with an error, and none is running, the status is COMPLETE or
\* ERROR.
C27_ReturnedMeansCompleteOrError ==
    (Idle /\ \E i \in DOMAIN analyze : analyze[i].manuscript_id = 1) =>
        manuscript.status \in {"COMPLETE", "ERROR"}

\* C27, amended: once an analyze request that passed the checks has returned
\* and none is running, the status is COMPLETE or ERROR; a request rejected by
\* the checks leaves the status as it was; so the status is not ANALYZING when
\* no analysis is running, and no request is rejected with 'Analysis already in
\* progress' then.
C27_NotLeftAnalyzing ==
    /\ Idle => manuscript.status # "ANALYZING"
    /\ (Idle /\ \E i \in DOMAIN analyze : analyze[i].pc = "done") =>
          manuscript.status \in {"COMPLETE", "ERROR"}
    /\ (Idle /\ \A i \in DOMAIN analyze : analyze[i].pc = "rejected") =>
          manuscript.status = "PENDING"
    /\ \A i \in DOMAIN analyze : analyze[i].detail # "in_progress"

\* a full analysis failed, and the next request ran to its end
C27_Witness ==
    /\ Len(analyze) = 2
    /\ analyze[1].modules = <<>> /\ analyze[1].pc = "done" /\ analyze[1].code = 500
    /\ analyze[2].pc = "done" /\ analyze[2].code = 200

\* ------------------------------------------------- advisor: the specification
\* user 1 is an advisor who has generated one invitation code; users 2 and 3
\* are academic users, each with a manuscript
InitAdvisor ==
    /\ app = "advisor"
    /\ ApiIdle /\ EngineIdle
    /\ DocIdle
    /\ analyses = <<>>
    /\ aggregated = <<>>
    /\ module_results = [c \in Components |-> <<>>]
    /\ acquisition = <<>>
    /\ user_tiers = [u \in Users |-> IF u = 1 THEN "advisor" ELSE "academic"]
    /\ memberships = <<>>
    /\ next_org_id = 1
    /\ decisions = <<>>
    /\ tenant_reply = <<>>
    /\ invitations = <<[creator_id |-> 1, is_used |-> FALSE, used_by_id |-> 0]>>
    /\ assignments = <<>>
    /\ annotations = <<>>
    /\ redeems = <<>>
    /\ advisor_reply = <<>>

AdvisorNext ==
    \/ \E u \in Users, c \in {0, 1} : redeem_invite_code(u, c)
    \/ \E i \in 1..MaxRedeems : RedeemCheckLinked(i)
    \/ \E i \in 1..MaxRedeems : RedeemCommit(i)
    \/ \E u \in Users, ms \in MsIds : create_advisor_annotation(u, ms)
    \/ \E u \in Users, ms \in MsIds \cup {3} : list_advisor_annotations(u, ms)

SpecAdvisor == InitAdvisor /\ [][AdvisorNext]_vars

\* C24: list_advisor_annotations gives a manuscript's annotations only to its
\* owner or to the advisor assigned to its owner; every other caller gets 403
\* and no annotation data. (Assignments are never removed, so a link that was
\* there at the request is still there.)
C24_AnnotationsOnlyToOwnerOrAdvisor ==
    advisor_reply # <<>> =>
        LET r == advisor_reply[1] IN
        /\ r.code = 200 => ListAccessOwnerOrAdvisor(r.user, r.manuscript_id)
        /\ r.code # 200 => r.data = {}
        /\ (r.manuscript_id \in MsIds /\ assignments = <<>>
              /\ ManuscriptOwner[r.manuscript_id] # r.user) => r.code = 403

\* C25: an invitation code is redeemed at most once: no more assignments than
\* codes, the redeemed code is marked used by the user who redeemed it, and a
\* redeem request that arrives once the code is used is answered 404.
C25_RedeemedAtMostOnce ==
    /\ Len(assignments) <= Len(invitations)
    /\ \A i \in DOMAIN redeems :
          redeems[i].code = 200 =>
             /\ invitations[redeems[i].invitation].is_used
             /\ invitations[redeems[i].invitation].used_by_id = redeems[i].user

\* ------------------------------------- run_analysis, module revision_center
\* `analyses` holds the manuscript's COMPLETED AnalysisResult rows in the order
\* they were completed; `aggregated` the result of the revision_center request

\* POST /analysis/run for a module with a generator, to its COMPLETED row
RunModule(a) ==
    /\ app = "revision"
    /\ Len(analyses) < MaxAnalyses
    /\ a.analysis_type # "revision_center"
    /\ analyses' = Append(analyses, a)
    /\ UNCHANGED <<app, apiVars, engineVars, aggregated, module_results,
                   acquisition, docVars, tenantVars>>

\* POST /analysis/run for revision_center: every COMPLETED row of the
\* manuscript goes to aggregate_edit_queue; the request's own row, RUNNING
\* during the query, is completed with the queue
RunRevisionCenter ==
    /\ app = "revision"
    /\ aggregated = <<>>
    /\ aggregated' = <<aggregate_edit_queue(analyses)>>
    /\ analyses' = Append(analyses,
                     [analysis_type |-> "revision_center", results |-> NoFindings])
    /\ UNCHANGED <<app, apiVars, engineVars, module_results, acquisition,
                   docVars, tenantVars>>

InitRevision ==
    /\ app = "revision"
    /\ ApiIdle /\ EngineIdle
    /\ DocIdle /\ TenantIdle
    /\ analyses = <<>>
    /\ aggregated = <<>>
    /\ module_results = [c \in Components |-> <<>>]
    /\ acquisition = <<>>

RevisionNext ==
    \/ \E a \in SampleAnalyses : RunModule(a)
    \/ RunRevisionCenter

SpecRevision == InitRevision /\ [][RevisionNext]_vars

\* the last completed run of every module
LatestRuns(list) ==
    LET Latest(n) == \A k \in (n + 1)..Len(list) :
                        list[k].analysis_type # list[n].analysis_type
        Keep == {n \in 1..Len(list) : Latest(n)}
        IndexOf[k \in 0..Len(list)] ==
            IF k = 0 THEN <<>>
            ELSE IF k \in Keep THEN Append(IndexOf[k - 1], k) ELSE IndexOf[k - 1]
    IN [j \in 1..Len(IndexOf[Len(list)]) |-> list[IndexOf[Len(list)][j]]]

\* C26: the edit queue built for revision_center holds each finding of a module
\* once: of several completed runs of a module only the latest contributes.
C26_LatestRunOnly ==
    [][aggregated' # aggregated =>
         aggregated'[1] = aggregate_edit_queue(LatestRuns(analyses))]_vars
====
